---------------------------- MODULE Spec2Model ----------------------------
(***************************************************************************)
(* Variant session lifecycle of the two MCP servers of this repository:    *)
(*   src/worktree_workflows.py   (voting worktrees with a session monitor) *)
(*   src/mcp_worktree_voting.py  (voting sessions with scored evaluation)  *)
(* A behaviour runs one of the two servers (variable prog).  Every tool    *)
(* handler is a synchronous function, so one handler call is one step; a   *)
(* monitor coroutine suspends only at its sleep, so one loop iteration is  *)
(* one step.  Git and the external workers are the environment: the set of *)
(* working copies, the set of branches and the execution logs.             *)
(***************************************************************************)
EXTENDS Integers, Sequences, FiniteSets, TLC

\* ------------------------------------------------------------------ bounds
\* Largest num_variants a create call asks for.
MaxVariants == 2
\* Number of create calls in one behaviour.
MaxCreates == 1

\* ------------------------------------------------------- program constants
\* task[:20] in the slug computation.
SlugLen == 20
\* Quality score heuristic of evaluate_implementation.
ChangesPoints == 30
TestsPoints == 50
PointsPerFile == 5
FilesPointsCap == 20

\* ------------------------------------------------------------ input domains
Programs == {"worktree_workflows", "mcp_worktree_voting"}
WF == "worktree_workflows"
VT == "mcp_worktree_voting"

\* Values str(uuid.uuid4())[:8] can take.
SessionIds == {"0a1b2c3d"}

\* Task texts, as sequences of characters.
Tasks == { <<"F", "i", "x", " ", "i", "t", "!">> }

\* num_variants as sent by a client: an unvalidated int.
VariantCounts == (-1) .. MaxVariants

\* Outcome of the repository lookup of a create call.
RepoOutcomes == {"found", "none", "multiple", "not_git"}

Min(a, b) == IF a <= b THEN a ELSE b

\* ------------------------------------------------------------------- names
\* f"variant-{i+1}" for the loop index i.
variant_id(i) == "variant-" \o ToString(i + 1)

\* Variant ids a client may name in a call.
WorktreeIds == { variant_id(i) : i \in 0 .. MaxVariants - 1 }

\* str.isalnum over the characters of Tasks.
AlnumChars == {"F", "i", "x", "t"}

lower(c) == IF c = "F" THEN "f" ELSE c

\* ''.join(c for c in cs if c.isalnum() or c == ' ').replace(' ', '-').lower()
RECURSIVE SlugOf(_)
SlugOf(cs) ==
    IF cs = <<>> THEN ""
    ELSE LET c == Head(cs)
             kept == IF c \in AlnumChars THEN lower(c)
                     ELSE IF c = " " THEN "-"
                     ELSE ""
         IN kept \o SlugOf(Tail(cs))

task_slug(task) == SlugOf(SubSeq(task, 1, Min(Len(task), SlugLen)))

\* Branch and path that create_voting_worktrees gives variant i.
wf_branch_name(session_id, task, i) ==
    "voting-" \o session_id \o "-" \o task_slug(task) \o "-" \o variant_id(i)

wf_worktree_path(session_id, task, i) ==
    session_id \o "-" \o task_slug(task) \o "-var" \o ToString(i + 1)

\* Branch and path that create_voting_session gives variant i.
vt_branch_name(session_id, worktree_id) ==
    "voting-" \o session_id \o "-" \o worktree_id

vt_worktree_path(session_id, i) == session_id \o "-" \o variant_id(i)

\* ------------------------------------------------------------------- state
VARIABLES
    prog,              \* which server runs
    uuids,             \* the values str(uuid.uuid4())[:8] takes in this run
    sessions,          \* registry: session id -> WorktreeSession
    worktreeDirs,      \* git: working copy path -> branch checked out in it
    branches,          \* git: branches of the target repository
    logs,              \* paths whose execution.log holds the sentinel
                       \* (a subtask's path: that hold .task_complete)
    monitors,          \* task number -> [session_id, state] of a monitor task
                       \* (a subtask monitor: and the worktrees it was given)
    monitoring_tasks,  \* session id -> task number
    ncreated,          \* create calls made so far
    ret                \* the step just taken and what it returned

vars == <<prog, uuids, sessions, worktreeDirs, branches, logs, monitors,
          monitoring_tasks, ncreated, ret>>

\* ------------------------------------------------------------ dictionaries
\* A dict whose order matters is a sequence of [id, path] entries.
Keys(d) == { d[k].id : k \in 1 .. Len(d) }

PathOf(d, wid) == d[CHOOSE k \in 1 .. Len(d) : d[k].id = wid].path

\* d[key] = value: in place when the key exists, appended otherwise.
DictPut(d, key, value) ==
    IF key \in Keys(d)
    THEN [k \in 1 .. Len(d) |->
            IF d[k].id = key THEN [id |-> key, path |-> value] ELSE d[k]]
    ELSE Append(d, [id |-> key, path |-> value])

\* sum(1 for done in session.implementations.values() if done)
CompletedCount(session) ==
    Cardinality({ w \in DOMAIN session.implementations :
                    session.implementations[w] })

\* ------------------------------------------------------------ return value
NoRet ==
    [op |-> "init", session_id |-> "", worktree_id |-> "", flag |-> FALSE,
     status |-> "", ids |-> <<>>, ranking |-> <<>>, best |-> "",
     requests |-> {}, merge |-> "none"]

Ret(op, session_id, worktree_id, flag, status) ==
    [NoRet EXCEPT !.op = op, !.session_id = session_id,
                  !.worktree_id = worktree_id, !.flag = flag,
                  !.status = status]

\* ------------------------------------------------------------ construction
\* WorktreeSession._get_current_branch: the branch of the target repository,
\* "main" when git cannot tell.
BaseBranch == "main"

NoImplementations == [w \in {} |-> FALSE]
NoEvaluations == [w \in {} |-> 0]

\* WorktreeSession.__init__ of worktree_workflows.py.
wf_WorktreeSession(session_id, task, num_variants) ==
    [session_id |-> session_id, task |-> task, num_variants |-> num_variants,
     worktrees |-> <<>>, implementations |-> NoImplementations,
     evaluations |-> NoEvaluations, base_branch |-> BaseBranch,
     task_slug |-> task_slug(task)]

\* WorktreeSession.__init__ of mcp_worktree_voting.py (no task_slug).
vt_WorktreeSession(session_id, task, num_variants) ==
    [session_id |-> session_id, task |-> task, num_variants |-> num_variants,
     worktrees |-> <<>>, implementations |-> NoImplementations,
     evaluations |-> NoEvaluations, base_branch |-> BaseBranch]

\* git worktree add -b branch path: refused when the branch or the path
\* exists, or when git fails for a reason of its own (gitFails).
WorktreeAddOk(branch, path, dirs, brs, gitFails) ==
    /\ ~gitFails
    /\ branch \notin brs
    /\ path \notin DOMAIN dirs

\* A provisioning loop that goes on to the next variant after a failure.
RECURSIVE ProvisionLoop_skip(_, _, _, _)
ProvisionLoop_skip(p, i, failAt, acc) ==
    IF i >= acc.session.num_variants THEN acc
    ELSE LET sid == acc.session.session_id
             vid == variant_id(i)
             branch == IF p = WF
                       THEN wf_branch_name(sid, acc.session.task, i)
                       ELSE vt_branch_name(sid, vid)
             path == IF p = WF
                     THEN wf_worktree_path(sid, acc.session.task, i)
                     ELSE vt_worktree_path(sid, i)
         IN IF WorktreeAddOk(branch, path, acc.dirs, acc.branches, failAt = i + 1)
            THEN ProvisionLoop_skip(p, i + 1, failAt,
                   [ok |-> acc.ok,
                    session |->
                       [acc.session EXCEPT
                          !.worktrees = DictPut(@, vid, path),
                          !.implementations = (vid :> FALSE) @@ @],
                    dirs |-> (path :> branch) @@ acc.dirs,
                    branches |-> acc.branches \cup {branch}])
            ELSE ProvisionLoop_skip(p, i + 1, failAt, [acc EXCEPT !.ok = FALSE])

\* A provisioning loop that leaves out a variant git refused and goes on.
RECURSIVE ProvisionLoop_tolerant(_, _, _, _)
ProvisionLoop_tolerant(p, i, failAt, acc) ==
    IF i >= acc.session.num_variants THEN acc
    ELSE LET sid == acc.session.session_id
             vid == variant_id(i)
             branch == IF p = WF
                       THEN wf_branch_name(sid, acc.session.task, i)
                       ELSE vt_branch_name(sid, vid)
             path == IF p = WF
                     THEN wf_worktree_path(sid, acc.session.task, i)
                     ELSE vt_worktree_path(sid, i)
         IN IF WorktreeAddOk(branch, path, acc.dirs, acc.branches, failAt = i + 1)
            THEN ProvisionLoop_tolerant(p, i + 1, failAt,
                   [ok |-> TRUE,
                    session |->
                       [acc.session EXCEPT
                          !.worktrees = DictPut(@, vid, path),
                          !.implementations = (vid :> FALSE) @@ @],
                    dirs |-> (path :> branch) @@ acc.dirs,
                    branches |-> acc.branches \cup {branch}])
            ELSE ProvisionLoop_tolerant(p, i + 1, failAt, acc)

\* The provisioning loop "for i in range(num_variants)", from index i on.
\* acc = [ok, session, dirs, branches]; failAt is the 1-based variant whose
\* git call fails by itself (0: none).  The loop returns at the first failure.
RECURSIVE ProvisionLoop(_, _, _, _)
ProvisionLoop(p, i, failAt, acc) ==
    IF i >= acc.session.num_variants THEN acc
    ELSE LET sid == acc.session.session_id
             vid == variant_id(i)
             branch == IF p = WF
                       THEN wf_branch_name(sid, acc.session.task, i)
                       ELSE vt_branch_name(sid, vid)
             path == IF p = WF
                     THEN wf_worktree_path(sid, acc.session.task, i)
                     ELSE vt_worktree_path(sid, i)
         IN IF WorktreeAddOk(branch, path, acc.dirs, acc.branches, failAt = i + 1)
            THEN ProvisionLoop(p, i + 1, failAt,
                   [ok |-> TRUE,
                    session |->
                       [acc.session EXCEPT
                          !.worktrees = DictPut(@, vid, path),
                          !.implementations = (vid :> FALSE) @@ @],
                    dirs |-> (path :> branch) @@ acc.dirs,
                    branches |-> acc.branches \cup {branch}])
            ELSE [acc EXCEPT !.ok = FALSE]

Provision(p, session, failAt) ==
    ProvisionLoop(p, 0, failAt,
        [ok |-> TRUE, session |-> session, dirs |-> worktreeDirs,
         branches |-> branches])

PathsOf(session) == { session.worktrees[k].path : k \in 1 .. Len(session.worktrees) }

\* ------------------------------------------------------------------ create
\* create_voting_worktrees(task, num_variants, target_repo).  starts: the
\* try block that creates the monitor task did not raise (it raises when the
\* handler runs where asyncio finds no event loop).
create_voting_worktrees(task, num_variants, session_id, repo, failAt, starts) ==
    /\ prog = WF
    /\ ncreated < MaxCreates
    /\ ncreated' = ncreated + 1
    /\ UNCHANGED <<prog, uuids>>
    /\ IF repo # "found"
       THEN /\ ret' = Ret("create", "", "", FALSE, "error_" \o repo)
            /\ UNCHANGED <<sessions, worktreeDirs, branches, logs, monitors,
                           monitoring_tasks>>
       ELSE \E p \in {Provision(WF, wf_WorktreeSession(session_id, task, num_variants),
                                failAt)} :
               /\ worktreeDirs' = p.dirs
               /\ branches' = p.branches
               /\ IF ~p.ok
                  THEN /\ ret' = Ret("create", "", "", FALSE, "error_worktree")
                       /\ UNCHANGED <<sessions, logs, monitors, monitoring_tasks>>
                  ELSE /\ sessions' = (session_id :> p.session) @@ sessions
                       \* create_task_instructions opens execution.log with 'w'
                       /\ logs' = logs \ PathsOf(p.session)
                       \* loop.create_task(monitor_voting_session(session_id))
                       /\ IF starts
                          THEN /\ monitors' = (ncreated' :>
                                    [session_id |-> session_id, state |-> "running"])
                                    @@ monitors
                               /\ monitoring_tasks' =
                                    (session_id :> ncreated') @@ monitoring_tasks
                          ELSE UNCHANGED <<monitors, monitoring_tasks>>
                       /\ ret' = [Ret("create", session_id, "", FALSE, "created")
                                    EXCEPT !.ids = [k \in 1 .. Len(p.session.worktrees)
                                                      |-> p.session.worktrees[k].id]]

\* A create that registers the session before it looks for the repository.
create_voting_session_registers_first(task, num_variants, session_id, repo, failAt) ==
    /\ prog = VT
    /\ ncreated < MaxCreates
    /\ ncreated' = ncreated + 1
    /\ UNCHANGED <<prog, uuids, logs, monitors, monitoring_tasks>>
    /\ IF repo # "found"
       THEN /\ ret' = Ret("create", "", "", FALSE, "error_" \o repo)
            /\ sessions' = (session_id :>
                               vt_WorktreeSession(session_id, task, num_variants))
                            @@ sessions
            /\ UNCHANGED <<worktreeDirs, branches>>
       ELSE \E p \in {Provision(VT, vt_WorktreeSession(session_id, task, num_variants),
                                failAt)} :
               /\ worktreeDirs' = p.dirs
               /\ branches' = p.branches
               /\ IF ~p.ok
                  THEN /\ ret' = Ret("create", "", "", FALSE, "error_worktree")
                       /\ UNCHANGED sessions
                  ELSE /\ sessions' = (session_id :> p.session) @@ sessions
                       /\ ret' = [Ret("create", session_id, "", FALSE, "created")
                                    EXCEPT !.ids = [k \in 1 .. Len(p.session.worktrees)
                                                      |-> p.session.worktrees[k].id]]

\* create_voting_session(task, num_variants, target_repo).
create_voting_session(task, num_variants, session_id, repo, failAt) ==
    /\ prog = VT
    /\ ncreated < MaxCreates
    /\ ncreated' = ncreated + 1
    /\ UNCHANGED <<prog, uuids, logs, monitors, monitoring_tasks>>
    /\ IF repo # "found"
       THEN /\ ret' = Ret("create", "", "", FALSE, "error_" \o repo)
            /\ UNCHANGED <<sessions, worktreeDirs, branches>>
       ELSE \E p \in {Provision(VT, vt_WorktreeSession(session_id, task, num_variants),
                                failAt)} :
               /\ worktreeDirs' = p.dirs
               /\ branches' = p.branches
               /\ IF ~p.ok
                  THEN /\ ret' = Ret("create", "", "", FALSE, "error_worktree")
                       /\ UNCHANGED sessions
                  ELSE /\ sessions' = (session_id :> p.session) @@ sessions
                       /\ ret' = [Ret("create", session_id, "", FALSE, "created")
                                    EXCEPT !.ids = [k \in 1 .. Len(p.session.worktrees)
                                                      |-> p.session.worktrees[k].id]]

\* ------------------------------------------------------------ the workers
\* The terminal command of spawn_terminal_for_worktree ends by appending
\* 'TASK COMPLETED SUCCESSFULLY' to execution.log of its working copy.  A
\* worker is spawned for the working copies of a registered session only.
worker_finishes(path) ==
    /\ prog = WF
    /\ path \in DOMAIN worktreeDirs
    /\ \E sid \in DOMAIN sessions : path \in PathsOf(sessions[sid])
    /\ path \notin logs
    /\ logs' = logs \cup {path}
    /\ ret' = Ret("worker", "", "", FALSE, "")
    /\ UNCHANGED <<prog, uuids, sessions, worktreeDirs, branches, monitors,
                   monitoring_tasks, ncreated>>

\* check_log_completion(worktree_path): a missing or unreadable log is False.
check_log_completion(path) == path \in logs

\* --------------------------------------------------------------- completion
\* mark_implementation_complete(session_id, worktree_id), the same in both.
mark_implementation_complete(session_id, worktree_id) ==
    /\ UNCHANGED <<prog, uuids, worktreeDirs, branches, logs, monitors,
                   monitoring_tasks, ncreated>>
    /\ IF session_id \notin DOMAIN sessions
       THEN /\ ret' = Ret("mark", session_id, worktree_id, FALSE, "session_not_found")
            /\ UNCHANGED sessions
       ELSE IF worktree_id \notin Keys(sessions[session_id].worktrees)
       THEN /\ ret' = Ret("mark", session_id, worktree_id, FALSE, "worktree_not_found")
            /\ UNCHANGED sessions
       ELSE /\ sessions' = [sessions EXCEPT
                              ![session_id].implementations[worktree_id] = TRUE]
            /\ ret' = Ret("mark", session_id, worktree_id, FALSE, "marked complete")

\* Log refresh that completes every variant once any log of the session
\* holds the sentinel.
LogRefresh_any(session) ==
    [session EXCEPT !.implementations =
        [w \in DOMAIN @ |->
            @[w] \/ \E v \in Keys(session.worktrees) :
                       check_log_completion(PathOf(session.worktrees, v))]]

\* Log refresh that copies the state of the log into the flag.
LogRefresh_overwrite(session) ==
    [session EXCEPT !.implementations =
        [w \in DOMAIN @ |-> check_log_completion(PathOf(session.worktrees, w))]]

\* Completion refresh from the logs: every variant not yet marked complete
\* whose log holds the sentinel becomes complete.
LogRefresh(session) ==
    [session EXCEPT !.implementations =
        [w \in DOMAIN @ |->
            @[w] \/ check_log_completion(PathOf(session.worktrees, w))]]

\* get_worktree_info of worktree_workflows.py; worktree_id "" is None.
get_worktree_info(session_id, worktree_id) ==
    /\ prog = WF
    /\ UNCHANGED <<prog, uuids, worktreeDirs, branches, logs, monitors,
                   monitoring_tasks, ncreated>>
    /\ IF session_id \notin DOMAIN sessions
       THEN /\ ret' = Ret("info", session_id, worktree_id, FALSE, "session_not_found")
            /\ UNCHANGED sessions
       ELSE \E session \in {LogRefresh(sessions[session_id])} :
               /\ sessions' = [sessions EXCEPT ![session_id] = session]
               /\ IF worktree_id # "" /\ worktree_id \notin Keys(session.worktrees)
                  THEN ret' = Ret("info", session_id, worktree_id, FALSE,
                                  "worktree_not_found")
                  ELSE ret' = [Ret("info", session_id, worktree_id, FALSE, "info")
                                 EXCEPT !.ids =
                                    SelectSeq([k \in 1 .. Len(session.worktrees) |->
                                                  session.worktrees[k].id],
                                              LAMBDA w :
                                                 /\ worktree_id \in {"", w}
                                                 /\ session.implementations[w])]

\* get_worktree_info of mcp_worktree_voting.py: a pure read.
vt_get_worktree_info(session_id, worktree_id) ==
    /\ prog = VT
    /\ UNCHANGED <<prog, uuids, sessions, worktreeDirs, branches, logs, monitors,
                   monitoring_tasks, ncreated>>
    /\ IF session_id \notin DOMAIN sessions
       THEN ret' = Ret("info", session_id, worktree_id, FALSE, "session_not_found")
       ELSE LET session == sessions[session_id]
            IN IF worktree_id # "" /\ worktree_id \notin Keys(session.worktrees)
               THEN ret' = Ret("info", session_id, worktree_id, FALSE,
                               "worktree_not_found")
               ELSE ret' = [Ret("info", session_id, worktree_id, FALSE, "info")
                              EXCEPT !.ids =
                                 SelectSeq([k \in 1 .. Len(session.worktrees) |->
                                               session.worktrees[k].id],
                                           LAMBDA w :
                                              /\ worktree_id \in {"", w}
                                              /\ session.implementations[w])]

\* ------------------------------------------------------------ presentation
\* The ids gathered without the completion filter.
CompletedIds_all(session) ==
    [k \in 1 .. Len(session.worktrees) |-> session.worktrees[k].id]

\* The ids evaluate_implementations_with_claude gathers: the completed
\* variants, in the order of session.worktrees.
CompletedIds(session) ==
    SelectSeq([k \in 1 .. Len(session.worktrees) |-> session.worktrees[k].id],
              LAMBDA w : session.implementations[w])

\* present_top_candidates(session_id), also the body of the
\* evaluate_implementations tool of worktree_workflows.py.
present_top_candidates(session_id) ==
    /\ prog = WF
    /\ UNCHANGED <<prog, uuids, sessions, worktreeDirs, branches, logs, monitors,
                   monitoring_tasks, ncreated>>
    /\ IF session_id \notin DOMAIN sessions
       THEN ret' = Ret("evaluate", session_id, "", FALSE, "session_not_found")
       ELSE IF CompletedIds(sessions[session_id]) = <<>>
       THEN ret' = Ret("evaluate", session_id, "", FALSE, "no_completed")
       ELSE ret' = [Ret("evaluate", session_id, "", FALSE, "ready")
                      EXCEPT !.ids = CompletedIds(sessions[session_id])]

\* A monitor that goes back to sleep after its end-of-session handling.
monitor_voting_session_keeps_polling(k, raises) ==
    /\ prog = WF
    /\ k \in DOMAIN monitors
    /\ monitors[k].state = "running"
    /\ UNCHANGED <<prog, uuids, worktreeDirs, branches, logs, ncreated>>
    /\ LET session_id == monitors[k].session_id
       IN IF session_id \notin DOMAIN sessions
          THEN /\ monitors' = [monitors EXCEPT ![k].state = "ended"]
               /\ ret' = Ret("monitor", session_id, "", FALSE, "session_gone")
               /\ UNCHANGED <<sessions, monitoring_tasks>>
          ELSE \E session \in {LogRefresh(sessions[session_id])} :
                  /\ sessions' = [sessions EXCEPT ![session_id] = session]
                  /\ IF CompletedCount(session) = session.num_variants
                     THEN /\ monitors' = monitors
                          /\ IF raises
                             THEN /\ ret' = Ret("monitor", session_id, "", TRUE, "error")
                                  /\ UNCHANGED monitoring_tasks
                             ELSE /\ ret' = [Ret("monitor", session_id, "", FALSE,
                                                 "presented")
                                               EXCEPT !.ids = CompletedIds(session)]
                                  /\ monitoring_tasks' =
                                        [q \in DOMAIN monitoring_tasks \ {session_id}
                                           |-> monitoring_tasks[q]]
                     ELSE /\ ret' = Ret("monitor", session_id, "", FALSE, "sleep")
                          /\ UNCHANGED <<monitors, monitoring_tasks>>

\* A monitor that sleeps on when its session is gone from the registry.
monitor_voting_session_lingers(k, raises) ==
    /\ prog = WF
    /\ k \in DOMAIN monitors
    /\ monitors[k].state = "running"
    /\ UNCHANGED <<prog, uuids, worktreeDirs, branches, logs, ncreated>>
    /\ LET session_id == monitors[k].session_id
       IN IF session_id \notin DOMAIN sessions
          THEN /\ monitors' = monitors
               /\ ret' = Ret("monitor", session_id, "", FALSE, "sleep")
               /\ UNCHANGED <<sessions, monitoring_tasks>>
          ELSE \E session \in {LogRefresh(sessions[session_id])} :
                  /\ sessions' = [sessions EXCEPT ![session_id] = session]
                  /\ IF CompletedCount(session) = session.num_variants
                     THEN /\ monitors' = [monitors EXCEPT ![k].state = "ended"]
                          /\ IF raises
                             THEN /\ ret' = Ret("monitor", session_id, "", TRUE, "error")
                                  /\ UNCHANGED monitoring_tasks
                             ELSE /\ ret' = [Ret("monitor", session_id, "", FALSE,
                                                 "presented")
                                               EXCEPT !.ids = CompletedIds(session)]
                                  /\ monitoring_tasks' =
                                        [q \in DOMAIN monitoring_tasks \ {session_id}
                                           |-> monitoring_tasks[q]]
                     ELSE /\ ret' = Ret("monitor", session_id, "", FALSE, "sleep")
                          /\ UNCHANGED <<monitors, monitoring_tasks>>

\* A monitor whose end-of-session handling also deletes the session.
monitor_voting_session_deregisters(k, raises) ==
    /\ prog = WF
    /\ k \in DOMAIN monitors
    /\ monitors[k].state = "running"
    /\ UNCHANGED <<prog, uuids, worktreeDirs, branches, logs, ncreated>>
    /\ LET session_id == monitors[k].session_id
       IN IF session_id \notin DOMAIN sessions
          THEN /\ monitors' = [monitors EXCEPT ![k].state = "ended"]
               /\ ret' = Ret("monitor", session_id, "", FALSE, "session_gone")
               /\ UNCHANGED <<sessions, monitoring_tasks>>
          ELSE \E session \in {LogRefresh(sessions[session_id])} :
                  /\ sessions' =
                        IF CompletedCount(session) = session.num_variants /\ ~raises
                        THEN [q \in DOMAIN sessions \ {session_id} |-> sessions[q]]
                        ELSE [sessions EXCEPT ![session_id] = session]
                  /\ IF CompletedCount(session) = session.num_variants
                     THEN /\ monitors' = [monitors EXCEPT ![k].state = "ended"]
                          /\ IF raises
                             THEN /\ ret' = Ret("monitor", session_id, "", TRUE, "error")
                                  /\ UNCHANGED monitoring_tasks
                             ELSE /\ ret' = [Ret("monitor", session_id, "", FALSE,
                                                 "presented")
                                               EXCEPT !.ids = CompletedIds(session)]
                                  /\ monitoring_tasks' =
                                        [q \in DOMAIN monitoring_tasks \ {session_id}
                                           |-> monitoring_tasks[q]]
                     ELSE /\ ret' = Ret("monitor", session_id, "", FALSE, "sleep")
                          /\ UNCHANGED <<monitors, monitoring_tasks>>

\* ----------------------------------------------------------------- monitor
\* One iteration of the loop of monitor_voting_session, run by task k.
\* raises: present_top_candidates raised inside the try block.
monitor_voting_session(k, raises) ==
    /\ prog = WF
    /\ k \in DOMAIN monitors
    /\ monitors[k].state = "running"
    /\ UNCHANGED <<prog, uuids, worktreeDirs, branches, logs, ncreated>>
    /\ LET session_id == monitors[k].session_id
       IN IF session_id \notin DOMAIN sessions
          THEN /\ monitors' = [monitors EXCEPT ![k].state = "ended"]
               /\ ret' = Ret("monitor", session_id, "", FALSE, "session_gone")
               /\ UNCHANGED <<sessions, monitoring_tasks>>
          ELSE \E session \in {LogRefresh(sessions[session_id])} :
                  /\ sessions' = [sessions EXCEPT ![session_id] = session]
                  /\ IF CompletedCount(session) = session.num_variants
                     THEN /\ monitors' = [monitors EXCEPT ![k].state = "ended"]
                          /\ IF raises
                             THEN /\ ret' = Ret("monitor", session_id, "", TRUE, "error")
                                  /\ UNCHANGED monitoring_tasks
                             ELSE /\ ret' = [Ret("monitor", session_id, "", FALSE,
                                                 "presented")
                                               EXCEPT !.ids = CompletedIds(session)]
                                  /\ monitoring_tasks' =
                                        [q \in DOMAIN monitoring_tasks \ {session_id}
                                           |-> monitoring_tasks[q]]
                     ELSE /\ ret' = Ret("monitor", session_id, "", FALSE, "sleep")
                          /\ UNCHANGED <<monitors, monitoring_tasks>>

\* ------------------------------------------------------------ branch names
\* WorktreeSession._get_branch_name(session_id, worktree_id).
session_get_branch_name(session, session_id, worktree_id) ==
    "voting-" \o session_id \o "-" \o session.task_slug \o "-" \o worktree_id

\* The module-level _get_branch_name(session_id, worktree_id).
get_branch_name(session_id, worktree_id) ==
    IF session_id \in DOMAIN sessions
    THEN session_get_branch_name(sessions[session_id], session_id, worktree_id)
    ELSE "voting-" \o session_id \o "-" \o worktree_id

\* A branch name computed from some registered session's id, not the call's.
BranchNameOf_any_session(session_id, worktree_id) ==
    LET s == CHOOSE s \in DOMAIN sessions : TRUE
    IN IF prog = WF
       THEN get_branch_name(s, worktree_id)
       ELSE vt_branch_name(s, worktree_id)

\* The branch name finalize_best and cleanup_session compute for a variant.
BranchNameOf(session_id, worktree_id) ==
    IF prog = WF
    THEN get_branch_name(session_id, worktree_id)
    ELSE vt_branch_name(session_id, worktree_id)

\* ------------------------------------------------------------- destruction
\* git worktree remove <path> --force: fails on a missing or busy path.
GitWorktreeRemoveOk(path, dirs, busy) ==
    path \in DOMAIN dirs /\ path \notin busy

\* git branch -D <branch>: fails on a missing branch and on one that a
\* working copy still has checked out.
GitBranchDeleteOk(branch, dirs, brs) ==
    branch \in brs /\ \A q \in DOMAIN dirs : dirs[q] # branch

\* A destroy loop that gives up at the first working copy git does not remove.
RECURSIVE DestroyLoop_stops(_, _, _)
DestroyLoop_stops(targets, busy, acc) ==
    IF targets = <<>> THEN acc
    ELSE LET t == Head(targets)
             removed == GitWorktreeRemoveOk(t.path, acc.dirs, busy)
             dirs1 == IF removed
                      THEN [q \in DOMAIN acc.dirs \ {t.path} |-> acc.dirs[q]]
                      ELSE acc.dirs
             deleted == GitBranchDeleteOk(t.branch, dirs1, acc.branches)
             acc1 == [dirs |-> dirs1,
                      branches |-> IF deleted THEN acc.branches \ {t.branch}
                                   ELSE acc.branches,
                      logs |-> IF removed THEN acc.logs \ {t.path} ELSE acc.logs,
                      requests |-> acc.requests \cup
                                     {<<"worktree", t.path>>, <<"branch", t.branch>>},
                      ids |-> Append(acc.ids, t.id)]
         IN IF removed THEN DestroyLoop_stops(Tail(targets), busy, acc1) ELSE acc1

\* The two subprocess calls made for each of targets, in order, whatever
\* they return.  acc = [dirs, branches, logs, requests, ids].
RECURSIVE DestroyLoop(_, _, _)
DestroyLoop(targets, busy, acc) ==
    IF targets = <<>> THEN acc
    ELSE LET t == Head(targets)
             removed == GitWorktreeRemoveOk(t.path, acc.dirs, busy)
             dirs1 == IF removed
                      THEN [q \in DOMAIN acc.dirs \ {t.path} |-> acc.dirs[q]]
                      ELSE acc.dirs
             deleted == GitBranchDeleteOk(t.branch, dirs1, acc.branches)
         IN DestroyLoop(Tail(targets), busy,
               [dirs |-> dirs1,
                branches |-> IF deleted THEN acc.branches \ {t.branch}
                             ELSE acc.branches,
                logs |-> IF removed THEN acc.logs \ {t.path} ELSE acc.logs,
                requests |-> acc.requests \cup
                               {<<"worktree", t.path>>, <<"branch", t.branch>>},
                ids |-> Append(acc.ids, t.id)])

DestroyStart ==
    [dirs |-> worktreeDirs, branches |-> branches, logs |-> logs,
     requests |-> {}, ids |-> <<>>]

\* Targets that do not leave out the variant to keep.
Targets_all(session_id, keep) ==
    [k \in 1 .. Len(sessions[session_id].worktrees) |->
        [id |-> sessions[session_id].worktrees[k].id,
         path |-> sessions[session_id].worktrees[k].path,
         branch |-> BranchNameOf(session_id, sessions[session_id].worktrees[k].id)]]

\* The entries of session.worktrees to destroy, with the branch name computed
\* for each: all of them but keep ("" keeps none).
Targets(session_id, keep) ==
    LET wts == SelectSeq(sessions[session_id].worktrees, LAMBDA e : e.id # keep)
    IN [k \in 1 .. Len(wts) |->
          [id |-> wts[k].id, path |-> wts[k].path,
           branch |-> BranchNameOf(session_id, wts[k].id)]]

\* git merge --no-ff <branch>: fails on a conflict and on a missing branch.
GitMergeOk(branch, conflict) == branch \in branches /\ ~conflict

\* ---------------------------------------------------------------- finalize
\* evaluation.get("test_results", {}).get("success", False) on the record
\* stored for wid: the first get returns the None that evaluate_implementation
\* leaves when no test command ran, and the second raises AttributeError.
\* Without a stored record the default {} is used.
TestSuccessRaises(session, wid) ==
    /\ wid \in DOMAIN session.evaluations
    /\ session.evaluations[wid].test_results = "None"

\* What finalize_best answers once its destroy loop d is done: building the
\* response raises on a winner whose record has no test results, and then
\* nothing is returned (ret keeps the winner and the requests made).
FinalizeAnswer(op, session, worktree_id, merge_to_main, d) ==
    IF TestSuccessRaises(session, worktree_id)
    THEN [Ret(op, session.session_id, worktree_id, merge_to_main, "raised")
            EXCEPT !.merge = IF merge_to_main THEN "merged" ELSE "none",
                   !.best = worktree_id,
                   !.requests = d.requests]
    ELSE [Ret(op, session.session_id, worktree_id, merge_to_main, "finalized")
            EXCEPT !.merge = IF merge_to_main THEN "merged" ELSE "none",
                   !.best = worktree_id,
                   !.ids = d.ids,
                   !.requests = d.requests]

\* A finalize that destroys the other variants before it looks at the
\* outcome of the merge.
FinalizeBody_destroy_first(op, session, worktree_id, merge_to_main, conflict, busy) ==
    LET session_id == session.session_id
        d == DestroyLoop(Targets(session_id, worktree_id), busy, DestroyStart)
        failed == merge_to_main
                  /\ ~GitMergeOk(BranchNameOf(session_id, worktree_id), conflict)
    IN [ret |-> IF failed
                THEN [Ret(op, session_id, worktree_id, merge_to_main, "error_merging")
                        EXCEPT !.merge = "failed"]
                ELSE FinalizeAnswer(op, session, worktree_id, merge_to_main, d),
        dirs |-> d.dirs, branches |-> d.branches, logs |-> d.logs]

\* The body of finalize_best after its two existence checks, run on session
\* (the registered session as the caller left it): what it returns and the
\* git state it leaves.
FinalizeBody(op, session, worktree_id, merge_to_main, conflict, busy) ==
    IF merge_to_main
       /\ ~GitMergeOk(BranchNameOf(session.session_id, worktree_id), conflict)
    THEN [ret |-> [Ret(op, session.session_id, worktree_id, merge_to_main,
                       "error_merging")
                     EXCEPT !.merge = "failed"],
          dirs |-> worktreeDirs, branches |-> branches, logs |-> logs]
    ELSE LET d == DestroyLoop(Targets(session.session_id, worktree_id), busy,
                              DestroyStart)
         IN [ret |-> FinalizeAnswer(op, session, worktree_id, merge_to_main, d),
             dirs |-> d.dirs, branches |-> d.branches, logs |-> d.logs]

\* A finalize that takes the session out of the registry once it is done.
finalize_best_retires(session_id, worktree_id, merge_to_main, conflict, busy) ==
    /\ UNCHANGED <<prog, uuids, monitors, monitoring_tasks, ncreated>>
    /\ IF session_id \notin DOMAIN sessions
       THEN /\ ret' = Ret("finalize", session_id, worktree_id, merge_to_main,
                          "session_not_found")
            /\ UNCHANGED <<sessions, worktreeDirs, branches, logs>>
       ELSE IF worktree_id \notin Keys(sessions[session_id].worktrees)
       THEN /\ ret' = Ret("finalize", session_id, worktree_id, merge_to_main,
                          "worktree_not_found")
            /\ UNCHANGED <<sessions, worktreeDirs, branches, logs>>
       ELSE \E f \in {FinalizeBody("finalize", sessions[session_id], worktree_id,
                                   merge_to_main, conflict, busy)} :
               /\ ret' = f.ret
               /\ worktreeDirs' = f.dirs
               /\ branches' = f.branches
               /\ logs' = f.logs
               /\ sessions' = IF f.ret.status \in {"finalized", "raised"}
                              THEN [q \in DOMAIN sessions \ {session_id} |-> sessions[q]]
                              ELSE sessions

\* finalize_best(session_id, worktree_id, merge_to_main), the same in both
\* servers but for the branch names.
finalize_best(session_id, worktree_id, merge_to_main, conflict, busy) ==
    /\ UNCHANGED <<prog, uuids, sessions, monitors, monitoring_tasks, ncreated>>
    /\ IF session_id \notin DOMAIN sessions
       THEN /\ ret' = Ret("finalize", session_id, worktree_id, merge_to_main,
                          "session_not_found")
            /\ UNCHANGED <<worktreeDirs, branches, logs>>
       ELSE IF worktree_id \notin Keys(sessions[session_id].worktrees)
       THEN /\ ret' = Ret("finalize", session_id, worktree_id, merge_to_main,
                          "worktree_not_found")
            /\ UNCHANGED <<worktreeDirs, branches, logs>>
       ELSE \E f \in {FinalizeBody("finalize", sessions[session_id], worktree_id,
                                   merge_to_main, conflict, busy)} :
               /\ ret' = f.ret
               /\ worktreeDirs' = f.dirs
               /\ branches' = f.branches
               /\ logs' = f.logs

\* ----------------------------------------------------------------- cleanup
\* The incomplete list without its filter: every variant id.
Incomplete_all(session) ==
    [k \in 1 .. Len(session.worktrees) |-> session.worktrees[k].id]

\* [wid for wid, done in session.implementations.items() if not done]
Incomplete(session) ==
    SelectSeq([k \in 1 .. Len(session.worktrees) |-> session.worktrees[k].id],
              LAMBDA w : ~session.implementations[w])

\* A cleanup that keeps the session registered when git refused a removal.
cleanup_session_keeps_on_failure(session_id, force, busy) ==
    /\ UNCHANGED <<prog, uuids, monitors, monitoring_tasks, ncreated>>
    /\ IF session_id \notin DOMAIN sessions
       THEN /\ ret' = Ret("cleanup", session_id, "", force, "session_not_found")
            /\ UNCHANGED <<sessions, worktreeDirs, branches, logs>>
       ELSE IF ~force /\ Incomplete(sessions[session_id]) # <<>>
       THEN /\ ret' = [Ret("cleanup", session_id, "", force, "incomplete")
                         EXCEPT !.ids = Incomplete(sessions[session_id])]
            /\ UNCHANGED <<sessions, worktreeDirs, branches, logs>>
       ELSE \E d \in {DestroyLoop(Targets(session_id, ""), busy, DestroyStart)} :
               /\ worktreeDirs' = d.dirs
               /\ branches' = d.branches
               /\ logs' = d.logs
               /\ sessions' = IF PathsOf(sessions[session_id]) \cap DOMAIN d.dirs = {}
                              THEN [q \in DOMAIN sessions \ {session_id} |-> sessions[q]]
                              ELSE sessions
               /\ ret' = [Ret("cleanup", session_id, "", force, "cleaned up")
                            EXCEPT !.requests = d.requests]

\* cleanup_session(session_id, force), the same in both servers but for the
\* branch names.
cleanup_session(session_id, force, busy) ==
    /\ UNCHANGED <<prog, uuids, monitors, monitoring_tasks, ncreated>>
    /\ IF session_id \notin DOMAIN sessions
       THEN /\ ret' = Ret("cleanup", session_id, "", force, "session_not_found")
            /\ UNCHANGED <<sessions, worktreeDirs, branches, logs>>
       ELSE IF ~force /\ Incomplete(sessions[session_id]) # <<>>
       THEN /\ ret' = [Ret("cleanup", session_id, "", force, "incomplete")
                         EXCEPT !.ids = Incomplete(sessions[session_id])]
            /\ UNCHANGED <<sessions, worktreeDirs, branches, logs>>
       ELSE \E d \in {DestroyLoop(Targets(session_id, ""), busy, DestroyStart)} :
               /\ worktreeDirs' = d.dirs
               /\ branches' = d.branches
               /\ logs' = d.logs
               /\ sessions' = [q \in DOMAIN sessions \ {session_id} |-> sessions[q]]
               /\ ret' = [Ret("cleanup", session_id, "", force, "cleaned up")
                            EXCEPT !.requests = d.requests]

\* -------------------------------------------------------------- evaluation
\* The dict evaluate_implementation starts from.  test_results is "None",
\* "passed" (success true) or "failed"; error: the "error" key is set.
NewEvaluation ==
    [has_changes |-> FALSE, files_changed |-> 0, lines_added |-> 0,
     lines_removed |-> 0, test_results |-> "None", quality_score |-> 0,
     error |-> FALSE]

\* A line of git diff --stat is the sequence of its comma-separated parts,
\* a part the sequence of its blank-separated tokens.
FileTokens == {"file", "files"}
InsertionTokens == {"insertion(+)", "insertions(+)"}
DeletionTokens == {"deletion(-)", "deletions(-)"}

\* "file" in part, for a part or a whole line.
Mentions(part, tokens) == \E k \in 1 .. Len(part) : part[k] \in tokens

LineMentions(line, tokens) == \E k \in 1 .. Len(line) : Mentions(line[k], tokens)

\* int(token) succeeds on a decimal numeral.
Numerals == [n \in 0 .. 99 |-> ToString(n)]

IsNumeral(token) == \E n \in DOMAIN Numerals : Numerals[n] = token

IntOf(token) == CHOOSE n \in DOMAIN Numerals : Numerals[n] = token

\* int(part.split()[0]) raises on an empty part and on a non-numeral.
FirstIntRaises(part) == part = <<>> \/ ~IsNumeral(part[1])

\* The loop with the deletions count stored in the insertions field.
RECURSIVE ParseParts_one_field(_, _, _)
ParseParts_one_field(parts, k, e) ==
    IF k > Len(parts) THEN e
    ELSE LET part == parts[k]
             field == IF Mentions(part, FileTokens) THEN "files_changed"
                      ELSE IF Mentions(part, InsertionTokens) THEN "lines_added"
                      ELSE IF Mentions(part, DeletionTokens) THEN "lines_added"
                      ELSE ""
         IN IF field = "" THEN ParseParts_one_field(parts, k + 1, e)
            ELSE IF FirstIntRaises(part) THEN [e EXCEPT !.error = TRUE]
            ELSE ParseParts_one_field(parts, k + 1,
                                      [e EXCEPT ![field] = IntOf(part[1])])

\* The loop "for part in parts" over the summary line, from part k on; an
\* exception leaves the fields assigned so far and ends the evaluation.
RECURSIVE ParseParts(_, _, _)
ParseParts(parts, k, e) ==
    IF k > Len(parts) THEN e
    ELSE LET part == parts[k]
             field == IF Mentions(part, FileTokens) THEN "files_changed"
                      ELSE IF Mentions(part, InsertionTokens) THEN "lines_added"
                      ELSE IF Mentions(part, DeletionTokens) THEN "lines_removed"
                      ELSE ""
         IN IF field = "" THEN ParseParts(parts, k + 1, e)
            ELSE IF FirstIntRaises(part) THEN [e EXCEPT !.error = TRUE]
            ELSE ParseParts(parts, k + 1, [e EXCEPT ![field] = IntOf(part[1])])

\* The quality score heuristic.
QualityScore(e) ==
    (IF e.has_changes THEN ChangesPoints ELSE 0)
    + (IF e.test_results = "passed" THEN TestsPoints ELSE 0)
    + (IF e.files_changed > 0
       THEN Min(e.files_changed * PointsPerFile, FilesPointsCap)
       ELSE 0)

\* evaluate_implementation(worktree_path, base_branch).  exists: the working
\* copy is on disk (subprocess.run raises on a missing cwd); diff: what git
\* diff --stat returned; test: the outcome of the first test command that ran,
\* "raises" when running it raised something other than TimeoutExpired and
\* FileNotFoundError (the only two the inner try catches).
evaluate_implementation(exists, diff, test) ==
    IF ~exists THEN [NewEvaluation EXCEPT !.error = TRUE]
    ELSE LET parsed ==
                IF diff.returncode = 0 /\ diff.stdout # <<>>
                THEN LET last_line == diff.stdout[Len(diff.stdout)]
                         changed == [NewEvaluation EXCEPT !.has_changes = TRUE]
                     IN IF LineMentions(last_line, FileTokens)
                        THEN ParseParts(last_line, 1, changed)
                        ELSE changed
                ELSE NewEvaluation
         IN IF parsed.error THEN parsed
            ELSE IF test = "raises" THEN [parsed EXCEPT !.error = TRUE]
            ELSE LET tested == [parsed EXCEPT !.test_results = test]
                 IN [tested EXCEPT !.quality_score = QualityScore(tested)]

\* What git and the test runner answer in a run of the lifecycle: an empty
\* diff with no test command, or one changed file with passing tests.
DiffEmpty == [returncode |-> 0, stdout |-> <<>>]
DiffOneFile ==
    [returncode |-> 0,
     stdout |-> << << <<"a.py", "|", "5", "-----">> >>,
                   << <<"1", "file", "changed">>, <<"5", "deletions(-)">> >> >>]

EvalInputs ==
    { [diff |-> DiffEmpty, test |-> "None"],
      [diff |-> DiffOneFile, test |-> "passed"] }

\* evaluation.get("quality_score", 0) on session.evaluations.get(wid, {}).
ScoreOf(session, wid) ==
    IF wid \in DOMAIN session.evaluations
    THEN session.evaluations[wid].quality_score
    ELSE 0

\* The sort without reverse=True: ascending and stable.
RECURSIVE SortByScore_ascending(_)
SortByScore_ascending(entries) ==
    IF entries = <<>> THEN <<>>
    ELSE LET n == Len(entries)
             x == entries[n]
             sorted == SortByScore_ascending(SubSeq(entries, 1, n - 1))
             before == Cardinality({k \in 1 .. Len(sorted) :
                                      sorted[k].quality_score <= x.quality_score})
         IN SubSeq(sorted, 1, before) \o <<x>>
               \o SubSeq(sorted, before + 1, Len(sorted))

\* A descending sort that puts an entry before the earlier ones of its score.
RECURSIVE SortByScore_unstable(_)
SortByScore_unstable(entries) ==
    IF entries = <<>> THEN <<>>
    ELSE LET n == Len(entries)
             x == entries[n]
             sorted == SortByScore_unstable(SubSeq(entries, 1, n - 1))
             before == Cardinality({k \in 1 .. Len(sorted) :
                                      sorted[k].quality_score > x.quality_score})
         IN SubSeq(sorted, 1, before) \o <<x>>
               \o SubSeq(sorted, before + 1, Len(sorted))

\* list.sort(key=quality_score, reverse=True): descending and stable.
RECURSIVE SortByScore(_)
SortByScore(entries) ==
    IF entries = <<>> THEN <<>>
    ELSE LET n == Len(entries)
             x == entries[n]
             sorted == SortByScore(SubSeq(entries, 1, n - 1))
             before == Cardinality({k \in 1 .. Len(sorted) :
                                      sorted[k].quality_score >= x.quality_score})
         IN SubSeq(sorted, 1, before) \o <<x>>
               \o SubSeq(sorted, before + 1, Len(sorted))

\* The variants without a stored evaluation, completed or not.
Unevaluated_all(session) ==
    { w \in Keys(session.worktrees) : w \notin DOMAIN session.evaluations }

\* The completed variants of session that have no stored evaluation yet.
Unevaluated(session) ==
    { w \in Keys(session.worktrees) :
        session.implementations[w] /\ w \notin DOMAIN session.evaluations }

\* An evaluation pass that computes a record for every completed variant
\* anew, the ones with a stored record from the working copy as it is now.
WithEvaluations_recompute(session, env) ==
    [session EXCEPT !.evaluations =
        [w \in { v \in Keys(session.worktrees) : session.implementations[v] } |->
            evaluate_implementation(
                PathOf(session.worktrees, w) \in DOMAIN worktreeDirs,
                IF w \in DOMAIN env THEN env[w].diff ELSE DiffEmpty,
                IF w \in DOMAIN env THEN env[w].test ELSE "None")]]

\* session with evaluate_implementation's result stored for each of them;
\* env gives, per variant, what git and the test runner answer.
WithEvaluations(session, env) ==
    [session EXCEPT !.evaluations =
        [w \in Unevaluated(session) |->
            evaluate_implementation(
                PathOf(session.worktrees, w) \in DOMAIN worktreeDirs,
                env[w].diff, env[w].test)] @@ @]

\* The entries evaluate_implementations ranks: one per variant, in the order
\* of session.worktrees.
RankingEntries(session) ==
    [k \in 1 .. Len(session.worktrees) |->
        [worktree_id |-> session.worktrees[k].id,
         completed |-> session.implementations[session.worktrees[k].id],
         scored |-> session.worktrees[k].id \in DOMAIN session.evaluations,
         quality_score |-> ScoreOf(session, session.worktrees[k].id)]]

\* eval_data["rank"] = i + 1
Ranked(evaluations) ==
    [k \in 1 .. Len(evaluations) |->
        [worktree_id |-> evaluations[k].worktree_id,
         completed |-> evaluations[k].completed,
         scored |-> evaluations[k].scored,
         quality_score |-> evaluations[k].quality_score,
         rank |-> k]]

\* evaluate_implementations(session_id) of mcp_worktree_voting.py.
evaluate_implementations(session_id, env) ==
    /\ prog = VT
    /\ UNCHANGED <<prog, uuids, worktreeDirs, branches, logs, monitors,
                   monitoring_tasks, ncreated>>
    /\ IF session_id \notin DOMAIN sessions
       THEN /\ ret' = Ret("evaluate", session_id, "", FALSE, "session_not_found")
            /\ UNCHANGED sessions
       ELSE \E session \in {WithEvaluations(sessions[session_id], env)} :
            \E evaluations \in {SortByScore(RankingEntries(session))} :
               /\ sessions' = [sessions EXCEPT ![session_id] = session]
               \* the "tests_passed" count of the summary
               /\ IF \E w \in Keys(session.worktrees) : TestSuccessRaises(session, w)
                  THEN ret' = Ret("evaluate", session_id, "", FALSE, "raised")
                  ELSE ret' = [Ret("evaluate", session_id, "", FALSE, "evaluated")
                                 EXCEPT !.ranking = Ranked(evaluations),
                                        !.best = IF evaluations = <<>> THEN ""
                                                 ELSE evaluations[1].worktree_id]

\* The (wid, evaluation) pairs auto_select_best sorts: the completed variants,
\* in the order of session.worktrees.
CompletedEntries(session) ==
    [k \in 1 .. Len(CompletedIds(session)) |->
        [worktree_id |-> CompletedIds(session)[k],
         quality_score |-> ScoreOf(session, CompletedIds(session)[k])]]

\* auto_select_best(session_id, merge_to_main) of mcp_worktree_voting.py.
auto_select_best(session_id, merge_to_main, env, conflict, busy) ==
    /\ prog = VT
    /\ UNCHANGED <<prog, uuids, monitors, monitoring_tasks, ncreated>>
    /\ IF session_id \notin DOMAIN sessions
       THEN /\ ret' = Ret("auto_select", session_id, "", merge_to_main,
                          "session_not_found")
            /\ UNCHANGED <<sessions, worktreeDirs, branches, logs>>
       ELSE \E session \in {WithEvaluations(sessions[session_id], env)} :
            \E evaluations \in {SortByScore(CompletedEntries(session))} :
               /\ sessions' = [sessions EXCEPT ![session_id] = session]
               /\ IF evaluations = <<>>
                  THEN /\ ret' = Ret("auto_select", session_id, "", merge_to_main,
                                     "no_completed")
                       /\ UNCHANGED <<worktreeDirs, branches, logs>>
                  ELSE \E f \in {FinalizeBody("auto_select", session,
                                              evaluations[1].worktree_id,
                                              merge_to_main, conflict, busy)} :
                          /\ ret' = f.ret
                          /\ worktreeDirs' = f.dirs
                          /\ branches' = f.branches
                          /\ logs' = f.logs

\* ------------------------------------------------- inputs and specification
\* A handler that returns before it reads an input behaves the same for every
\* value of it: one value then stands for them all.
InputsIf(read, S) == IF read THEN S ELSE {CHOOSE x \in S : TRUE}

Registered(sid) == sid \in DOMAIN sessions

HasVariant(sid, wid) ==
    Registered(sid) /\ wid \in Keys(sessions[sid].worktrees)

\* Paths whose removal git may refuse as busy when the variants of sid other
\* than keep are destroyed.
MayBeBusy(sid, keep) ==
    IF Registered(sid)
    THEN { sessions[sid].worktrees[k].path :
             k \in { q \in 1 .. Len(sessions[sid].worktrees) :
                       sessions[sid].worktrees[q].id # keep } }
         \cap DOMAIN worktreeDirs
    ELSE {}

\* The variants whose evaluation a call on sid computes.
EvalTargets(sid) ==
    IF Registered(sid) THEN Unevaluated(sessions[sid]) ELSE {}

HasPending(sid) ==
    Registered(sid) /\ Incomplete(sessions[sid]) # <<>>

HasCompleted(sid) ==
    Registered(sid) /\ CompletedIds(sessions[sid]) # <<>>

Init ==
    /\ prog \in Programs
    /\ uuids = SessionIds
    /\ sessions = [s \in {} |-> 0]
    /\ worktreeDirs = [p \in {} |-> ""]
    /\ branches = {}
    /\ logs = {}
    /\ monitors = [k \in {} |-> 0]
    /\ monitoring_tasks = [s \in {} |-> 0]
    /\ ncreated = 0
    /\ ret = NoRet

Next ==
    \/ \E task \in Tasks, repo \in RepoOutcomes :
          \E n \in InputsIf(repo = "found", VariantCounts),
             sid \in InputsIf(repo = "found", uuids) :
             \E failAt \in IF repo = "found" /\ n > 0 THEN 0 .. n ELSE {0} :
                \E starts \in InputsIf(repo = "found" /\ failAt = 0, BOOLEAN) :
                   create_voting_worktrees(task, n, sid, repo, failAt, starts)
    \/ \E task \in Tasks, repo \in RepoOutcomes :
          \E n \in InputsIf(repo = "found", VariantCounts),
             sid \in InputsIf(repo = "found", uuids) :
             \E failAt \in IF repo = "found" /\ n > 0 THEN 0 .. n ELSE {0} :
                create_voting_session(task, n, sid, repo, failAt)
    \/ \E path \in DOMAIN worktreeDirs : worker_finishes(path)
    \/ \E sid \in uuids :
          \E wid \in InputsIf(Registered(sid), WorktreeIds) :
             mark_implementation_complete(sid, wid)
    \/ \E sid \in uuids :
          \E wid \in InputsIf(Registered(sid), WorktreeIds \cup {""}) :
             get_worktree_info(sid, wid)
    \/ \E sid \in uuids :
          \E wid \in InputsIf(Registered(sid), WorktreeIds \cup {""}) :
             vt_get_worktree_info(sid, wid)
    \/ \E sid \in uuids : present_top_candidates(sid)
    \/ \E k \in DOMAIN monitors, raises \in BOOLEAN :
          monitor_voting_session(k, raises)
    \/ \E sid \in uuids :
          \E wid \in InputsIf(Registered(sid), WorktreeIds) :
             \E merge \in InputsIf(HasVariant(sid, wid), BOOLEAN) :
                \E conflict \in InputsIf(merge, BOOLEAN) :
                   \E busy \in InputsIf(~(merge /\ conflict), SUBSET MayBeBusy(sid, wid)) :
                      finalize_best(sid, wid, merge, conflict, busy)
    \/ \E sid \in uuids :
          \E env \in [EvalTargets(sid) -> EvalInputs] :
             evaluate_implementations(sid, env)
    \/ \E sid \in uuids :
          \E merge \in InputsIf(HasCompleted(sid), BOOLEAN),
             env \in [EvalTargets(sid) -> EvalInputs] :
             \E conflict \in InputsIf(merge, BOOLEAN),
                busy \in SUBSET MayBeBusy(sid, "") :
                auto_select_best(sid, merge, env, conflict, busy)
    \/ \E sid \in uuids :
          \E force \in InputsIf(Registered(sid), BOOLEAN) :
             \E busy \in InputsIf(force \/ ~HasPending(sid), SUBSET MayBeBusy(sid, "")) :
                cleanup_session(sid, force, busy)

Spec == Init /\ [][Next]_vars

\* The event loop resumes a monitor task when its asyncio.sleep(10) is over:
\* a task that is not ended takes its next tick.
MonitorTick(k) == \E raises \in BOOLEAN : monitor_voting_session(k, raises)

SpecFair ==
    Init /\ [][Next]_vars /\ \A k \in 1 .. MaxCreates : WF_vars(MonitorTick(k))

\* ------------------------------------------------- the evaluator by itself
\* Summary lines of git diff --stat: a files part, then the insertions and
\* the deletions parts git prints when there are any.  "many" stands for a
\* first token that int() refuses.
FilesParts ==
    { <<"1", "file", "changed">>, <<"2", "files", "changed">>,
      <<"7", "files", "changed">>, <<"many", "files", "changed">> }

InsertionsParts == { <<>>, <<"1", "insertion(+)">>, <<"10", "insertions(+)">> }

DeletionsParts == { <<>>, <<"3", "deletions(-)">>, <<"5", "deletions(-)">> }

SummaryLine(files, insertions, deletions) ==
    SelectSeq(<<files, insertions, deletions>>, LAMBDA part : part # <<>>)

SummaryLines ==
    { SummaryLine(f, i, d) :
        f \in FilesParts, i \in InsertionsParts, d \in DeletionsParts }

\* A line of the per-file table that precedes the summary.
FileLine == << <<"a.py", "|", "5", "-----">> >>

\* What git diff --stat may return: nothing, a failure, or a table that ends
\* with a summary line.
DiffOutputs ==
    { DiffEmpty, [returncode |-> 128, stdout |-> <<>>] }
    \cup { [returncode |-> rc, stdout |-> <<FileLine, line>>] :
             rc \in {0, 128}, line \in SummaryLines }

TestOutcomes == {"None", "passed", "failed", "raises"}

\* One call of evaluate_implementation; ret holds its arguments and result.
Evaluate(exists, diff, test) ==
    /\ ret' = [op |-> "evaluate_implementation", exists |-> exists,
               diff |-> diff, test |-> test,
               evaluation |-> evaluate_implementation(exists, diff, test)]
    /\ UNCHANGED <<prog, uuids, sessions, worktreeDirs, branches, logs, monitors,
                   monitoring_tasks, ncreated>>

InitEval ==
    /\ prog = VT
    /\ uuids = {}
    /\ sessions = [s \in {} |-> 0]
    /\ worktreeDirs = [p \in {} |-> ""]
    /\ branches = {}
    /\ logs = {}
    /\ monitors = [k \in {} |-> 0]
    /\ monitoring_tasks = [s \in {} |-> 0]
    /\ ncreated = 0
    /\ ret = NoRet

NextEval ==
    \E exists \in BOOLEAN, diff \in DiffOutputs, test \in TestOutcomes :
       Evaluate(exists, diff, test)

SpecEval == InitEval /\ [][NextEval]_vars

\* ------------------------------------------- a server holding two sessions
\* The id an earlier create call drew.
EarlierSessionId == "4e5f6a7b"

\* What a successful create call of MaxVariants variants leaves in an empty
\* repository.
EarlierCreate(p, task) ==
    ProvisionLoop(p, 0, 0,
        [ok |-> TRUE,
         session |-> IF p = WF
                     THEN wf_WorktreeSession(EarlierSessionId, task, MaxVariants)
                     ELSE vt_WorktreeSession(EarlierSessionId, task, MaxVariants),
         dirs |-> [q \in {} |-> ""],
         branches |-> {}])

\* The server after that earlier call: its session is registered, its working
\* copies and branches exist, and (worktree_workflows) its monitor runs.
InitTwoSessions ==
    /\ prog \in Programs
    /\ uuids = SessionIds \cup {EarlierSessionId}
    /\ \E task \in Tasks :
          \E p \in {EarlierCreate(prog, task)} :
             /\ sessions = (EarlierSessionId :> p.session)
             /\ worktreeDirs = p.dirs
             /\ branches = p.branches
    /\ logs = {}
    /\ monitors = IF prog = WF
                  THEN (0 :> [session_id |-> EarlierSessionId, state |-> "running"])
                  ELSE [k \in {} |-> 0]
    /\ monitoring_tasks = IF prog = WF THEN (EarlierSessionId :> 0)
                          ELSE [s \in {} |-> 0]
    /\ ncreated = 0
    /\ ret = NoRet

\* The calls that register, complete and retire sessions.
NextTwoSessions ==
    \/ \E task \in Tasks, repo \in RepoOutcomes :
          \E n \in InputsIf(repo = "found", VariantCounts),
             sid \in InputsIf(repo = "found", uuids) :
             \E failAt \in IF repo = "found" /\ n > 0 THEN 0 .. n ELSE {0} :
                \E starts \in InputsIf(repo = "found" /\ failAt = 0, BOOLEAN) :
                   create_voting_worktrees(task, n, sid, repo, failAt, starts)
    \/ \E task \in Tasks, repo \in RepoOutcomes :
          \E n \in InputsIf(repo = "found", VariantCounts),
             sid \in InputsIf(repo = "found", uuids) :
             \E failAt \in IF repo = "found" /\ n > 0 THEN 0 .. n ELSE {0} :
                create_voting_session(task, n, sid, repo, failAt)
    \/ \E sid \in uuids :
          \E wid \in InputsIf(Registered(sid), WorktreeIds) :
             mark_implementation_complete(sid, wid)
    \/ \E sid \in uuids :
          \E force \in InputsIf(Registered(sid), BOOLEAN) :
             \E busy \in InputsIf(force \/ ~HasPending(sid), SUBSET MayBeBusy(sid, "")) :
                cleanup_session(sid, force, busy)

SpecTwoSessions == InitTwoSessions /\ [][NextTwoSessions]_vars

\* Every call that reads or changes a session, on a server that holds an
\* earlier session.
NextIsolation ==
    \/ \E task \in Tasks, repo \in RepoOutcomes :
          \E n \in InputsIf(repo = "found", VariantCounts),
             sid \in InputsIf(repo = "found", uuids) :
             \E failAt \in IF repo = "found" /\ n > 0 THEN 0 .. n ELSE {0} :
                \E starts \in InputsIf(repo = "found" /\ failAt = 0, BOOLEAN) :
                   create_voting_worktrees(task, n, sid, repo, failAt, starts)
    \/ \E task \in Tasks, repo \in RepoOutcomes :
          \E n \in InputsIf(repo = "found", VariantCounts),
             sid \in InputsIf(repo = "found", uuids) :
             \E failAt \in IF repo = "found" /\ n > 0 THEN 0 .. n ELSE {0} :
                create_voting_session(task, n, sid, repo, failAt)
    \/ \E sid \in uuids :
          \E wid \in InputsIf(Registered(sid), WorktreeIds) :
             mark_implementation_complete(sid, wid)
    \/ \E k \in DOMAIN monitors, raises \in BOOLEAN :
          monitor_voting_session(k, raises)
    \/ \E sid \in uuids :
          \E wid \in InputsIf(Registered(sid), WorktreeIds) :
             \E merge \in InputsIf(HasVariant(sid, wid), BOOLEAN) :
                \E conflict \in InputsIf(merge, BOOLEAN) :
                   \E busy \in InputsIf(~(merge /\ conflict), SUBSET MayBeBusy(sid, wid)) :
                      finalize_best(sid, wid, merge, conflict, busy)
    \/ \E sid \in uuids :
          \E env \in [EvalTargets(sid) -> {[diff |-> DiffOneFile, test |-> "passed"]}] :
             evaluate_implementations(sid, env)
    \/ \E sid \in uuids :
          \E force \in InputsIf(Registered(sid), BOOLEAN) :
             \E busy \in InputsIf(force \/ ~HasPending(sid), SUBSET MayBeBusy(sid, "")) :
                cleanup_session(sid, force, busy)

SpecIsolation == InitTwoSessions /\ [][NextIsolation]_vars

\* ------------------------------------------------- orchestrated fan-out
\* create_orchestrated_worktrees and its monitor keep their sessions out of
\* the registry: the state of an orchestrated session is the working copies
\* and branches in git, the .task_complete markers of its workers (logs holds
\* the paths that have one) and the dict its monitor task was started with
\* (monitors[k].worktrees).  ret also tells which workers the step launched,
\* which instruction files it wrote and which branches it merged.

\* subtask[:30] in the slug computation.
SubtaskSlugLen == 30

\* Largest number of subtasks a call passes.
MaxSubtasks == 3

\* Subtask texts, as sequences of characters.
SubtaskTexts == { <<"F", "i", "x">>, <<"i", "t", "!">>, <<"t", "x", "t">> }

\* The lists of subtasks a client sends.
SubtaskLists == UNION { [1 .. n -> SubtaskTexts] : n \in 0 .. MaxSubtasks }

subtask_slug(subtask) ==
    SlugOf(SubSeq(subtask, 1, Min(Len(subtask), SubtaskSlugLen)))

\* f"subtask-{i+1}" for the loop index i.
subtask_id(i) == "subtask-" \o ToString(i + 1)

orchestrated_branch_name(session_id, subtask) ==
    "orchestrated-" \o session_id \o "-" \o subtask_slug(subtask)

orchestrated_worktree_path(session_id, subtask) ==
    session_id \o "-" \o subtask_slug(subtask)

NoOrchestratedRet ==
    [op |-> "init", session_id |-> "", status |-> "", worktrees |-> <<>>,
     instruction_files |-> <<>>, launched |-> <<>>, merged |-> <<>>]

\* The loop "for i, subtask in enumerate(subtasks)", from index i on.
\* acc = [ok, worktrees, dirs, branches, instruction_files, launched].  One
\* iteration adds the working copy, returns when git refuses it, and
\* otherwise writes SUBTASK_INSTRUCTIONS.md and spawns the worker of that
\* subtask before the next iteration begins.
RECURSIVE OrchestratedLoop(_, _, _, _, _)
OrchestratedLoop(session_id, subtasks, i, failAt, acc) ==
    IF i >= Len(subtasks) THEN acc
    ELSE LET subtask == subtasks[i + 1]
             branch == orchestrated_branch_name(session_id, subtask)
             path == orchestrated_worktree_path(session_id, subtask)
         IN IF WorktreeAddOk(branch, path, acc.dirs, acc.branches, failAt = i + 1)
            THEN OrchestratedLoop(session_id, subtasks, i + 1, failAt,
                   [ok |-> TRUE,
                    worktrees |-> Append(acc.worktrees,
                                    [id |-> subtask_id(i), path |-> path,
                                     branch |-> branch]),
                    dirs |-> (path :> branch) @@ acc.dirs,
                    branches |-> acc.branches \cup {branch},
                    instruction_files |-> Append(acc.instruction_files, path),
                    launched |-> Append(acc.launched, path)])
            ELSE [acc EXCEPT !.ok = FALSE]

\* create_orchestrated_worktrees(task, subtasks, target_repo).  starts: the
\* try block that creates the monitor task did not raise.
create_orchestrated_worktrees(task, subtasks, session_id, repo, failAt, starts) ==
    /\ prog = WF
    /\ ncreated < MaxCreates
    /\ ncreated' = ncreated + 1
    /\ UNCHANGED <<prog, uuids, sessions>>
    /\ IF repo # "found"
       THEN /\ ret' = [NoOrchestratedRet EXCEPT !.op = "create",
                                                !.status = "error_" \o repo]
            /\ UNCHANGED <<worktreeDirs, branches, logs, monitors,
                           monitoring_tasks>>
       ELSE \E p \in {OrchestratedLoop(session_id, subtasks, 0, failAt,
                        [ok |-> TRUE, worktrees |-> <<>>, dirs |-> worktreeDirs,
                         branches |-> branches, instruction_files |-> <<>>,
                         launched |-> <<>>])} :
               /\ worktreeDirs' = p.dirs
               /\ branches' = p.branches
               /\ UNCHANGED logs
               /\ IF ~p.ok
                  THEN /\ ret' = [NoOrchestratedRet EXCEPT
                                    !.op = "create", !.status = "error_worktree",
                                    !.instruction_files = p.instruction_files,
                                    !.launched = p.launched]
                       /\ UNCHANGED <<monitors, monitoring_tasks>>
                  ELSE /\ IF starts
                          THEN /\ monitors' = (ncreated' :>
                                    [session_id |-> session_id, state |-> "running",
                                     worktrees |-> p.worktrees])
                                    @@ monitors
                               /\ monitoring_tasks' =
                                    (session_id :> ncreated') @@ monitoring_tasks
                          ELSE UNCHANGED <<monitors, monitoring_tasks>>
                       /\ ret' = [NoOrchestratedRet EXCEPT
                                    !.op = "create", !.status = "created",
                                    !.session_id = session_id,
                                    !.worktrees = p.worktrees,
                                    !.instruction_files = p.instruction_files,
                                    !.launched = p.launched]

\* The worker spawned in a subtask's working copy follows its instructions
\* and runs "touch .task_complete".  Every working copy the loop made had its
\* worker spawned in the same iteration.
subtask_worker_finishes(path) ==
    /\ prog = WF
    /\ path \in DOMAIN worktreeDirs
    /\ path \notin logs
    /\ logs' = logs \cup {path}
    /\ ret' = [NoOrchestratedRet EXCEPT !.op = "worker"]
    /\ UNCHANGED <<prog, uuids, sessions, worktreeDirs, branches, monitors,
                   monitoring_tasks, ncreated>>

\* completed_count of monitor_orchestrated_session: the working copies of the
\* task's dict that hold a .task_complete file.
OrchestratedCompletedCount(worktrees) ==
    Cardinality({ j \in 1 .. Len(worktrees) : worktrees[j].path \in logs })

\* combine_orchestrated_results(session_id, worktrees, main_task): lists the
\* entries of the dict in its order and answers "combined".  It makes no git
\* call, so it merges no branch.
combine_orchestrated_results(session_id, worktrees) ==
    [NoOrchestratedRet EXCEPT !.op = "monitor", !.status = "combined",
                              !.session_id = session_id,
                              !.worktrees = worktrees, !.merged = <<>>]

\* A monitor that combines as soon as one subtask is complete.
monitor_orchestrated_session_early(k) ==
    /\ prog = WF
    /\ k \in DOMAIN monitors
    /\ monitors[k].state = "running"
    /\ UNCHANGED <<prog, uuids, sessions, worktreeDirs, branches, logs, ncreated>>
    /\ LET session_id == monitors[k].session_id
           worktrees == monitors[k].worktrees
       IN IF \/ OrchestratedCompletedCount(worktrees) > 0
             \/ Len(worktrees) = 0
          THEN /\ ret' = combine_orchestrated_results(session_id, worktrees)
               /\ monitoring_tasks' =
                     [q \in DOMAIN monitoring_tasks \ {session_id}
                        |-> monitoring_tasks[q]]
               /\ monitors' = [monitors EXCEPT ![k].state = "ended"]
          ELSE /\ ret' = [NoOrchestratedRet EXCEPT !.op = "monitor",
                                                   !.status = "sleep",
                                                   !.session_id = session_id]
               /\ UNCHANGED <<monitors, monitoring_tasks>>

\* One iteration of the loop of monitor_orchestrated_session, run by task k.
monitor_orchestrated_session(k) ==
    /\ prog = WF
    /\ k \in DOMAIN monitors
    /\ monitors[k].state = "running"
    /\ UNCHANGED <<prog, uuids, sessions, worktreeDirs, branches, logs, ncreated>>
    /\ LET session_id == monitors[k].session_id
           worktrees == monitors[k].worktrees
       IN IF OrchestratedCompletedCount(worktrees) = Len(worktrees)
          THEN /\ ret' = combine_orchestrated_results(session_id, worktrees)
               /\ monitoring_tasks' =
                     [q \in DOMAIN monitoring_tasks \ {session_id}
                        |-> monitoring_tasks[q]]
               /\ monitors' = [monitors EXCEPT ![k].state = "ended"]
          ELSE /\ ret' = [NoOrchestratedRet EXCEPT !.op = "monitor",
                                                   !.status = "sleep",
                                                   !.session_id = session_id]
               /\ UNCHANGED <<monitors, monitoring_tasks>>

\* The server before any call, run for its orchestrated tools.
InitOrchestrated ==
    /\ prog = WF
    /\ uuids = SessionIds
    /\ sessions = [s \in {} |-> 0]
    /\ worktreeDirs = [q \in {} |-> ""]
    /\ branches = {}
    /\ logs = {}
    /\ monitors = [k \in {} |-> 0]
    /\ monitoring_tasks = [s \in {} |-> 0]
    /\ ncreated = 0
    /\ ret = NoOrchestratedRet

NextOrchestrated ==
    \/ \E task \in Tasks, repo \in RepoOutcomes :
          \E subtasks \in InputsIf(repo = "found", SubtaskLists),
             sid \in InputsIf(repo = "found", uuids) :
             \E failAt \in IF repo = "found" THEN 0 .. Len(subtasks) ELSE {0} :
                \E starts \in InputsIf(repo = "found" /\ failAt = 0, BOOLEAN) :
                   create_orchestrated_worktrees(task, subtasks, sid, repo,
                                                 failAt, starts)
    \/ \E path \in DOMAIN worktreeDirs : subtask_worker_finishes(path)
    \/ \E k \in 1 .. MaxCreates : monitor_orchestrated_session(k)

SpecOrchestrated == InitOrchestrated /\ [][NextOrchestrated]_vars

\* ------------------------------------------- the event loop, call by call
\* The same server at the grain of its git calls.  mcp.run() drives one
\* asyncio event loop on one thread: a request that has arrived waits as a
\* task of the loop until the loop is free, and the loop is free only while
\* no handler is inside its body, because finalize_best and cleanup_session
\* are plain "def" functions that hold the thread from their first statement
\* to their return.  The monitor coroutine gives the thread back only at
\* "await asyncio.sleep(10)".  Here monitors holds every task of the loop:
\* task 0 is the monitor of the registered session, tasks 1 .. MaxCalls are
\* tool calls, "ready" before their body starts, "in_body" from then on until
\* they return, "ended" afterwards.

\* Number of finalize_best and cleanup_session requests in one behaviour.
MaxCalls == 2

LoopOps == {"finalize", "cleanup"}

\* A loop that hands the thread to another task at any statement.
LoopIdle_preemptive == TRUE

\* No task of the loop is between the first statement of a handler body and
\* its return.
LoopIdle == \A k \in DOMAIN monitors : monitors[k].state # "in_body"

Frame(op, session_id, worktree_id, flag, state, targets) ==
    [op |-> op, session_id |-> session_id, worktree_id |-> worktree_id,
     flag |-> flag, state |-> state, targets |-> targets]

\* The session, its working copies and its monitor as a successful
\* create_voting_worktrees call of MaxVariants variants left them.
InitLoop ==
    /\ prog = WF
    /\ uuids = SessionIds \cup {EarlierSessionId}
    /\ \E task \in Tasks :
          \E p \in {EarlierCreate(WF, task)} :
             /\ sessions = (EarlierSessionId :> p.session)
             /\ worktreeDirs = p.dirs
             /\ branches = p.branches
    /\ logs = {}
    /\ monitors = (0 :> Frame("monitor", EarlierSessionId, "", FALSE, "running", <<>>))
    /\ monitoring_tasks = (EarlierSessionId :> 0)
    /\ ncreated = 0
    /\ ret = NoRet

\* A tools/call request for finalize_best(session_id, worktree_id, flag) or
\* cleanup_session(session_id, flag) arrives and becomes task k of the loop.
call_arrives(k, op, session_id, worktree_id, flag) ==
    /\ k \notin DOMAIN monitors
    /\ k - 1 \in DOMAIN monitors
    /\ monitors' = (k :> Frame(op, session_id, worktree_id, flag, "ready", <<>>))
                   @@ monitors
    /\ ret' = Ret("call", session_id, worktree_id, flag, op)
    /\ UNCHANGED <<prog, uuids, sessions, worktreeDirs, branches, logs,
                   monitoring_tasks, ncreated>>

\* The loop starts the handler of task k: the statements of finalize_best
\* (validation, optional merge) or cleanup_session (validation, incomplete
\* check) up to the destroy loop, whose items it takes from session.worktrees.
handler_begins(k, conflict) ==
    /\ k \in DOMAIN monitors
    /\ monitors[k].state = "ready"
    /\ LoopIdle
    /\ UNCHANGED <<prog, uuids, sessions, worktreeDirs, branches, logs,
                   monitoring_tasks, ncreated>>
    /\ LET f == monitors[k]
           sid == f.session_id
           End(status) ==
              /\ monitors' = [monitors EXCEPT ![k].state = "ended"]
              /\ ret' = Ret(f.op, sid, f.worktree_id, f.flag, status)
           Enter(keep) ==
              /\ monitors' = [monitors EXCEPT
                                ![k].state = "in_body",
                                ![k].targets =
                                   SelectSeq(sessions[sid].worktrees,
                                             LAMBDA e : e.id # keep)]
              /\ ret' = Ret(f.op, sid, f.worktree_id, f.flag, "begun")
       IN IF sid \notin DOMAIN sessions THEN End("session_not_found")
          ELSE IF f.op = "finalize"
          THEN IF f.worktree_id \notin Keys(sessions[sid].worktrees)
               THEN End("worktree_not_found")
               ELSE IF f.flag /\ ~GitMergeOk(get_branch_name(sid, f.worktree_id),
                                             conflict)
               THEN End("error_merging")
               ELSE Enter(f.worktree_id)
          ELSE IF ~f.flag /\ Incomplete(sessions[sid]) # <<>>
               THEN End("incomplete")
               ELSE Enter("")

\* The next statements of the handler of task k: the two git calls of one
\* iteration of its destroy loop, or, after the last iteration, the rest of
\* the body ("del sessions[session_id]" in cleanup_session) and the return.
handler_continues(k, busy) ==
    /\ k \in DOMAIN monitors
    /\ monitors[k].state = "in_body"
    /\ UNCHANGED <<prog, uuids, monitoring_tasks, ncreated>>
    /\ LET f == monitors[k]
           sid == f.session_id
       IN IF f.targets # <<>>
          THEN \E d \in {DestroyLoop(
                           <<[id |-> Head(f.targets).id,
                              path |-> Head(f.targets).path,
                              branch |-> get_branch_name(sid, Head(f.targets).id)]>>,
                           IF busy THEN {Head(f.targets).path} ELSE {},
                           DestroyStart)} :
                  /\ worktreeDirs' = d.dirs
                  /\ branches' = d.branches
                  /\ logs' = d.logs
                  /\ monitors' = [monitors EXCEPT ![k].targets = Tail(f.targets)]
                  /\ ret' = [Ret(f.op, sid, f.worktree_id, f.flag, "destroying")
                               EXCEPT !.requests = d.requests]
                  /\ UNCHANGED sessions
          ELSE /\ monitors' = [monitors EXCEPT ![k].state = "ended"]
               /\ UNCHANGED <<worktreeDirs, branches, logs>>
               /\ IF f.op = "finalize"
                  THEN /\ ret' = Ret(f.op, sid, f.worktree_id, f.flag, "finalized")
                       /\ UNCHANGED sessions
                  ELSE IF sid \in DOMAIN sessions
                  THEN /\ sessions' = [q \in DOMAIN sessions \ {sid} |-> sessions[q]]
                       /\ ret' = Ret(f.op, sid, f.worktree_id, f.flag, "cleaned up")
                  ELSE \* del sessions[session_id] raises KeyError
                       /\ ret' = Ret(f.op, sid, f.worktree_id, f.flag, "raised")
                       /\ UNCHANGED sessions

\* The loop resumes the monitor after its sleep: one iteration of its loop.
monitor_wakes(k, raises) ==
    /\ LoopIdle
    /\ monitor_voting_session(k, raises)

NextLoop ==
    \/ \E k \in 1 .. MaxCalls, op \in LoopOps, sid \in uuids, flag \in BOOLEAN :
          \E wid \in InputsIf(op = "finalize", WorktreeIds) :
             call_arrives(k, op, sid, wid, flag)
    \/ \E k \in 1 .. MaxCalls, conflict \in BOOLEAN : handler_begins(k, conflict)
    \/ \E k \in 1 .. MaxCalls, busy \in BOOLEAN : handler_continues(k, busy)
    \/ \E raises \in BOOLEAN : monitor_wakes(0, raises)

SpecLoop == InitLoop /\ [][NextLoop]_vars

\* ------------------------------------------------------------------ claims
\* The steps that are calls of one of the tools, or ticks of the monitor, on
\* a session that stays registered.
KeepsSession == {"worker", "mark", "info", "evaluate", "monitor", "finalize",
                 "auto_select"}

\* The branch the create call made for variant wid of the registered session.
CreatedBranch(sid, wid) ==
    LET i == CHOOSE j \in 0 .. MaxVariants : variant_id(j) = wid
    IN IF prog = WF THEN wf_branch_name(sid, sessions[sid].task, i)
       ELSE vt_branch_name(sid, wid)

\* C1: completion is monotonic.  A variant whose flag is Completed is still a
\* variant of its session, and still Completed, after every mark, monitor
\* tick, get_worktree_info refresh, evaluate, finalize and auto-select step.
C1_CompletionMonotonic ==
    [][ret'.op \in KeepsSession =>
          \A s \in DOMAIN sessions :
             \A w \in DOMAIN sessions[s].implementations :
                sessions[s].implementations[w] =>
                   /\ s \in DOMAIN sessions'
                   /\ w \in DOMAIN sessions'[s].implementations
                   /\ sessions'[s].implementations[w]]_vars

\* A log refresh has just run on a session holding a variant that is
\* Completed although its log does not hold the sentinel.
C1_Witness ==
    /\ ret.op \in {"info", "monitor"}
    /\ ret.status \in {"info", "sleep"}
    /\ ret.session_id \in DOMAIN sessions
    /\ \E w \in Keys(sessions[ret.session_id].worktrees) :
          /\ sessions[ret.session_id].implementations[w]
          /\ ~check_log_completion(PathOf(sessions[ret.session_id].worktrees, w))

\* The removals a finalize that keeps winner owes: the working copy and the
\* branch of every other variant in the map of session sid.
OwedRequests(sid, winner) ==
    UNION { { <<"worktree", PathOf(sessions[sid].worktrees, w)>>,
              <<"branch", CreatedBranch(sid, w)>> } :
            w \in Keys(sessions[sid].worktrees) \ {winner} }

\* C2: a finalize_best (called directly or by auto_select_best) that reaches
\* its destroy step requests neither the removal of the winner's working copy
\* nor the deletion of the winner's branch, and requests both for every other
\* variant in the session's map.
C2_FinalizeSparesWinner ==
    (ret.op \in {"finalize", "auto_select"}
     /\ ret.status \in {"finalized", "raised"}) =>
       /\ <<"worktree", PathOf(sessions[ret.session_id].worktrees, ret.best)>>
             \notin ret.requests
       /\ <<"branch", CreatedBranch(ret.session_id, ret.best)>> \notin ret.requests
       /\ ret.requests = OwedRequests(ret.session_id, ret.best)

\* finalize_best has destroyed the other variant of a session of two.
C2_Witness ==
    /\ ret.op = "finalize"
    /\ ret.status = "finalized"
    /\ Len(sessions[ret.session_id].worktrees) = 2
    /\ Cardinality(ret.requests) = 2
    /\ Cardinality(DOMAIN worktreeDirs) = 1

\* C3: exactly one winner.  Of two successful finalize_best calls on the same
\* session with nothing in between, the second designates the winner of the
\* first, and leaves the working copy and the branch of that winner in place.
C3_ExactlyOneWinner ==
    [][(/\ ret.op = "finalize" /\ ret.status = "finalized"
        /\ ret'.op = "finalize" /\ ret'.status = "finalized"
        /\ ret'.session_id = ret.session_id) =>
          LET path == PathOf(sessions[ret.session_id].worktrees, ret.best)
              branch == CreatedBranch(ret.session_id, ret.best)
          IN /\ ret'.best = ret.best
             /\ path \in DOMAIN worktreeDirs => path \in DOMAIN worktreeDirs'
             /\ branch \in branches => branch \in branches']_vars

\* The variants of the registered session sid whose flag is Pending.
PendingOf(sid) ==
    { w \in Keys(sessions[sid].worktrees) : ~sessions[sid].implementations[w] }

\* The elements of a sequence.
Range(seq) == { seq[k] : k \in 1 .. Len(seq) }

\* C4: cleanup_session without force on a session with a Pending variant
\* answers with the 'incomplete' error, whose list holds exactly the Pending
\* variant ids, each once, and changes nothing: registry and git are as they
\* were and no removal is requested.
C4_CleanupRefusedUnchanged ==
    [][(/\ ret'.op = "cleanup"
        /\ ~ret'.flag
        /\ ret'.session_id \in DOMAIN sessions
        /\ PendingOf(ret'.session_id) # {}) =>
          /\ ret'.status = "incomplete"
          /\ Range(ret'.ids) = PendingOf(ret'.session_id)
          /\ Len(ret'.ids) = Cardinality(PendingOf(ret'.session_id))
          /\ ret'.requests = {}
          /\ sessions' = sessions
          /\ worktreeDirs' = worktreeDirs
          /\ branches' = branches]_vars

\* A cleanup was refused on a session of two with one variant Pending and
\* the other Completed.
C4_Witness ==
    /\ ret.op = "cleanup"
    /\ ret.status = "incomplete"
    /\ Len(ret.ids) = 1
    /\ Len(sessions[ret.session_id].worktrees) = 2

\* C5: finalize_best with merge_to_main on a variant of a registered
\* session, when the merge fails, answers with the merge error, requests no
\* removal and leaves registry and git as they were; and the merge does fail
\* when the variant's branch is gone.
C5_MergeFailureAborts ==
    [][(/\ ret'.op = "finalize"
        /\ ret'.flag
        /\ HasVariant(ret'.session_id, ret'.worktree_id)) =>
          /\ CreatedBranch(ret'.session_id, ret'.worktree_id) \notin branches
                => ret'.merge = "failed"
          /\ ret'.merge = "failed" =>
                /\ ret'.status = "error_merging"
                /\ ret'.requests = {}
                /\ sessions' = sessions
                /\ worktreeDirs' = worktreeDirs
                /\ branches' = branches]_vars

\* A merge has failed on a session of two whose working copies are both on
\* disk.
C5_Witness ==
    /\ ret.op = "finalize"
    /\ ret.merge = "failed"
    /\ ret.status = "error_merging"
    /\ Len(sessions[ret.session_id].worktrees) = 2
    /\ PathsOf(sessions[ret.session_id]) \subseteq DOMAIN worktreeDirs

\* C6: auto_select_best on a registered session without a Completed variant
\* answers 'no completed implementations', which is neither the
\* session-not-found answer nor a finalize answer, and requests no merge and
\* no removal.
C6_AutoSelectNothing ==
    (/\ ret.op = "auto_select"
     /\ ret.session_id \in DOMAIN sessions
     /\ CompletedCount(sessions[ret.session_id]) = 0) =>
       /\ ret.status = "no_completed"
       /\ ret.status \notin {"session_not_found", "finalized", "error_merging"}
       /\ ret.merge = "none"
       /\ ret.requests = {}
       /\ ret.best = ""

\* auto_select_best was called on a session whose variants are all Pending.
C6_Witness ==
    /\ ret.op = "auto_select"
    /\ ret.status = "no_completed"
    /\ Len(sessions[ret.session_id].worktrees) = 2
    /\ PathsOf(sessions[ret.session_id]) \subseteq DOMAIN worktreeDirs

\* Position of variant w in the creation order of session sid.
CreatedAt(sid, w) ==
    CHOOSE k \in 1 .. Len(sessions[sid].worktrees) : sessions[sid].worktrees[k].id = w

\* The score stored for variant w of session sid, 0 when none is stored.
StoredScore(sid, w) ==
    IF w \in DOMAIN sessions[sid].evaluations
    THEN sessions[sid].evaluations[w].quality_score
    ELSE 0

\* C7: auto_select_best on a session with a Completed variant hands
\* finalize_best a Completed variant whose score no other Completed variant
\* exceeds, and which was created before every Completed variant of the same
\* score.
C7_AutoSelectPicksBest ==
    (/\ ret.op = "auto_select"
     /\ ret.session_id \in DOMAIN sessions
     /\ CompletedCount(sessions[ret.session_id]) > 0) =>
       LET sid == ret.session_id
           winner == ret.worktree_id
       IN /\ ret.status \in {"finalized", "error_merging", "raised"}
          /\ winner \in Keys(sessions[sid].worktrees)
          /\ sessions[sid].implementations[winner]
          /\ \A w \in Keys(sessions[sid].worktrees) \ {winner} :
                sessions[sid].implementations[w] =>
                   \/ StoredScore(sid, winner) > StoredScore(sid, w)
                   \/ /\ StoredScore(sid, winner) = StoredScore(sid, w)
                      /\ CreatedAt(sid, winner) < CreatedAt(sid, w)

\* auto_select_best preferred the second variant to the first, both being
\* Completed.
C7_Witness ==
    /\ ret.op = "auto_select"
    /\ ret.status = "finalized"
    /\ ret.worktree_id = variant_id(1)
    /\ CompletedCount(sessions[ret.session_id]) = 2

\* C8: the number of variants of a registered session is at most the
\* requested count, and no two entries of its map have the same id.
C8_VariantCountBounded ==
    \A s \in DOMAIN sessions :
       /\ Len(sessions[s].worktrees) <= sessions[s].num_variants
       /\ \A j, k \in 1 .. Len(sessions[s].worktrees) :
             sessions[s].worktrees[j].id = sessions[s].worktrees[k].id => j = k

\* C9: the ranking evaluate_implementations returns lists every variant of
\* the session once, with its stored score, by score descending, numbered
\* 1..n, and two entries of equal score in creation order.
C9_RankingOrdered ==
    (ret.op = "evaluate" /\ ret.status = "evaluated") =>
       LET sid == ret.session_id
           r == ret.ranking
       IN /\ Len(r) = Len(sessions[sid].worktrees)
          /\ { r[k].worktree_id : k \in 1 .. Len(r) } = Keys(sessions[sid].worktrees)
          /\ \A k \in 1 .. Len(r) :
                /\ r[k].rank = k
                /\ r[k].quality_score = StoredScore(sid, r[k].worktree_id)
          /\ \A j, k \in 1 .. Len(r) :
                j < k =>
                   \/ r[j].quality_score > r[k].quality_score
                   \/ /\ r[j].quality_score = r[k].quality_score
                      /\ CreatedAt(sid, r[j].worktree_id)
                            < CreatedAt(sid, r[k].worktree_id)

\* A ranking of two variants with the same positive score.
C9_Witness ==
    /\ ret.op = "evaluate"
    /\ ret.status = "evaluated"
    /\ Len(ret.ranking) = 2
    /\ ret.ranking[1].quality_score = ret.ranking[2].quality_score
    /\ ret.ranking[1].quality_score > 0

\* C10: the variant evaluate_implementations reports as best_implementation
\* is a Completed variant.
C10_BestIsCompleted ==
    (ret.op = "evaluate" /\ ret.status = "evaluated" /\ ret.best # "") =>
       sessions[ret.session_id].implementations[ret.best]

\* C11: evaluate_implementations on a registered session without a Completed
\* variant reports the 'no completed implementations' outcome, which names no
\* best implementation and is not the answer for an unknown session.
C11_EvaluateNothingCompleted ==
    (/\ ret.op = "evaluate"
     /\ ret.session_id \in DOMAIN sessions
     /\ CompletedCount(sessions[ret.session_id]) = 0) =>
       /\ ret.status \in {"no_completed", "evaluated"}
       /\ ret.best = ""

\* The evaluation stored for a call of evaluate_implementation.
Evaluated == ret.op = "evaluate_implementation"

\* The score the heuristic gives the fields of evaluation record e.
HeuristicScore(e) ==
    (IF e.has_changes THEN 30 ELSE 0)
    + (IF e.test_results = "passed" THEN 50 ELSE 0)
    + (IF 5 * e.files_changed <= 20 THEN 5 * e.files_changed ELSE 20)

\* C13: the record evaluate_implementation returns has the quality_score of
\* the heuristic for its has_changes, test_results and files_changed, between
\* 0 and 100, on every path.
C13_ScoreIsHeuristic ==
    Evaluated =>
       /\ ret.evaluation.quality_score = HeuristicScore(ret.evaluation)
       /\ ret.evaluation.quality_score \in 0 .. 100

\* C12: a variant has a stored evaluation only if it is Completed, and the
\* entries evaluate_implementations returns are scored for the Completed
\* variants and absent for the Pending ones.
C12_ScoredIffCompleted ==
    /\ \A s \in DOMAIN sessions :
          \A w \in DOMAIN sessions[s].evaluations :
             /\ w \in DOMAIN sessions[s].implementations
             /\ sessions[s].implementations[w]
    /\ (ret.op = "evaluate" /\ ret.status = "evaluated") =>
          \A k \in 1 .. Len(ret.ranking) :
             ret.ranking[k].scored
                = sessions[ret.session_id].implementations[ret.ranking[k].worktree_id]

\* evaluate_implementations returned one scored entry, for variant-2, and an
\* absent one.
C12_Witness ==
    /\ ret.op = "evaluate"
    /\ ret.status = "evaluated"
    /\ Len(ret.ranking) = 2
    /\ \E k \in 1 .. 2 :
          ret.ranking[k].worktree_id = variant_id(1) /\ ret.ranking[k].scored
    /\ \E k \in 1 .. 2 : ~ret.ranking[k].scored

\* C14: an evaluate_implementations or auto_select_best call keeps every
\* stored evaluation, every completion flag, every variant map and the
\* registry membership; and a call that follows another of its kind on the
\* same session returns the same ranking, respectively the same winner.
C14_ReevaluationIdempotent ==
    [][/\ (ret'.op \in {"evaluate", "auto_select"}
           /\ ret'.session_id \in DOMAIN sessions) =>
             /\ DOMAIN sessions' = DOMAIN sessions
             /\ \A s \in DOMAIN sessions :
                   /\ sessions'[s].worktrees = sessions[s].worktrees
                   /\ sessions'[s].implementations = sessions[s].implementations
                   /\ \A w \in DOMAIN sessions[s].evaluations :
                         /\ w \in DOMAIN sessions'[s].evaluations
                         /\ sessions'[s].evaluations[w] = sessions[s].evaluations[w]
       /\ (/\ ret.op = "evaluate" /\ ret.status = "evaluated"
           /\ ret'.op = "evaluate" /\ ret'.session_id = ret.session_id) =>
             ret'.ranking = ret.ranking
       /\ (/\ ret.op = "auto_select"
           /\ ret.status \in {"finalized", "error_merging"}
           /\ ret'.op = "auto_select" /\ ret'.session_id = ret.session_id) =>
             ret'.worktree_id = ret.worktree_id]_vars

\* evaluate_implementations returned a positive score for a variant whose
\* working copy is gone: the score of an earlier evaluation.
C14_Witness ==
    /\ ret.op = "evaluate"
    /\ ret.status = "evaluated"
    /\ \E k \in 1 .. Len(ret.ranking) :
          /\ ret.ranking[k].quality_score > 0
          /\ PathOf(sessions[ret.session_id].worktrees, ret.ranking[k].worktree_id)
                \notin DOMAIN worktreeDirs

\* The number a part of a summary line starts with, 0 for an absent part.
NumberOf(part) ==
    IF part = <<>> THEN 0
    ELSE CASE part[1] = "1" -> 1
           [] part[1] = "2" -> 2
           [] part[1] = "3" -> 3
           [] part[1] = "5" -> 5
           [] part[1] = "7" -> 7
           [] part[1] = "10" -> 10

\* C15: a summary line is parsed into files_changed, lines_added and
\* lines_removed, a part the line lacks counting as 0; an empty diff gives
\* has_changes = false and three zeros.
C15_SummaryParsed ==
    (Evaluated /\ ret.exists) =>
       /\ ret.diff = DiffEmpty =>
             /\ ~ret.evaluation.has_changes
             /\ ret.evaluation.files_changed = 0
             /\ ret.evaluation.lines_added = 0
             /\ ret.evaluation.lines_removed = 0
       /\ \A f \in FilesParts, i \in InsertionsParts, d \in DeletionsParts :
             (/\ f[1] # "many"
              /\ ret.diff = [returncode |-> 0,
                             stdout |-> <<FileLine, SummaryLine(f, i, d)>>]) =>
                /\ ret.evaluation.has_changes
                /\ ret.evaluation.files_changed = NumberOf(f)
                /\ ret.evaluation.lines_added = NumberOf(i)
                /\ ret.evaluation.lines_removed = NumberOf(d)

\* '1 file changed, 5 deletions(-)' was parsed into (1, 0, 5).
C15_Witness ==
    /\ Evaluated
    /\ ret.exists
    /\ ret.diff.returncode = 0
    /\ ret.diff.stdout = <<FileLine, << <<"1", "file", "changed">>,
                                        <<"5", "deletions(-)">> >> >>
    /\ ret.evaluation.files_changed = 1
    /\ ret.evaluation.lines_added = 0
    /\ ret.evaluation.lines_removed = 5

\* The answers of a create call whose repository lookup failed.
LookupErrors == {"error_none", "error_multiple", "error_not_git"}

\* C16: a create call that fails because the directory holds no or several
\* repositories, or because the one named is not a git repository, creates
\* no working copy and no branch, registers no session and starts no monitor.
C16_LookupFailureCreatesNothing ==
    [][(ret'.op = "create" /\ ret'.status \in LookupErrors) =>
          /\ sessions' = sessions
          /\ worktreeDirs' = worktreeDirs
          /\ branches' = branches
          /\ monitors' = monitors
          /\ monitoring_tasks' = monitoring_tasks]_vars

\* A create call has failed on several repositories, and nothing exists.
C16_Witness ==
    /\ ret.op = "create"
    /\ ret.status = "error_multiple"
    /\ DOMAIN sessions = {}
    /\ DOMAIN worktreeDirs = {}
    /\ DOMAIN monitors = {}

\* Path and branch the create call of the running server gives variant j + 1.
CreatedPath(sid, task, j) ==
    IF prog = WF THEN wf_worktree_path(sid, task, j) ELSE vt_worktree_path(sid, j)

CreatedBranchAt(sid, task, j) ==
    IF prog = WF THEN wf_branch_name(sid, task, j)
    ELSE vt_branch_name(sid, variant_id(j))

\* C17: a create call that fails while provisioning variant i registers no
\* session and starts no monitor, and leaves on disk exactly what it made
\* before the failure: the working copies and branches of variants 1..i-1,
\* none of variant i or a later one.
C17_ProvisioningFailureStops ==
    [][(ret'.op = "create" /\ ret'.status = "error_worktree") =>
          /\ sessions' = sessions
          /\ monitors' = monitors
          /\ monitoring_tasks' = monitoring_tasks
          /\ \A q \in DOMAIN worktreeDirs :
                q \in DOMAIN worktreeDirs' /\ worktreeDirs'[q] = worktreeDirs[q]
          /\ \E sid \in uuids, task \in Tasks, i \in 1 .. MaxVariants :
                /\ DOMAIN worktreeDirs' \ DOMAIN worktreeDirs
                      = { CreatedPath(sid, task, j) : j \in 0 .. i - 2 }
                /\ branches' \ branches
                      = { CreatedBranchAt(sid, task, j) : j \in 0 .. i - 2 }
                /\ branches \subseteq branches']_vars

\* A create call has failed at its second variant: the first is on disk and
\* no session is registered.
C17_Witness ==
    /\ ret.op = "create"
    /\ ret.status = "error_worktree"
    /\ Cardinality(DOMAIN worktreeDirs) = 1
    /\ Cardinality(branches) = 1
    /\ DOMAIN sessions = {}

\* C18: a finalize_best that succeeds (called directly or by
\* auto_select_best) leaves the session registered with its map of variants,
\* and leaves the winner as it found it: its completion flag, its working
\* copy on its branch, and its branch.
C18_FinalizeKeepsSessionAndWinner ==
    [][(ret'.op \in {"finalize", "auto_select"} /\ ret'.status = "finalized") =>
          LET sid == ret'.session_id
              w == ret'.best
              path == PathOf(sessions[sid].worktrees, w)
          IN /\ sid \in DOMAIN sessions'
             /\ sessions'[sid].worktrees = sessions[sid].worktrees
             /\ w \in Keys(sessions'[sid].worktrees)
             /\ sessions'[sid].implementations = sessions[sid].implementations
             /\ path \in DOMAIN worktreeDirs =>
                   path \in DOMAIN worktreeDirs'
                   /\ worktreeDirs'[path] = worktreeDirs[path]
             /\ \A b \in {CreatedBranch(sid, w), BranchNameOf(sid, w)} :
                   b \in branches => b \in branches']_vars

\* A finalize has merged the winner and destroyed the other variant: the
\* session is registered, the winner Completed, on disk and with its branch.
C18_Witness ==
    /\ ret.op \in {"finalize", "auto_select"}
    /\ ret.status = "finalized"
    /\ ret.merge = "merged"
    /\ ret.requests # {}
    /\ ret.session_id \in DOMAIN sessions
    /\ sessions[ret.session_id].implementations[ret.best]
    /\ PathOf(sessions[ret.session_id].worktrees, ret.best) \in DOMAIN worktreeDirs
    /\ CreatedBranch(ret.session_id, ret.best) \in branches
    /\ Cardinality(DOMAIN worktreeDirs) = 1

\* The removals a cleanup of session sid owes: the working copy and the
\* branch of every variant in its map.
OwedByCleanup(sid) ==
    UNION { { <<"worktree", PathOf(sessions[sid].worktrees, w)>>,
              <<"branch", CreatedBranch(sid, w)>> } :
            w \in Keys(sessions[sid].worktrees) }

\* C19: a cleanup_session of a registered session, forced or with every
\* variant Completed, requests the removal of the working copy and the
\* deletion of the branch of every variant, whatever git answers, and leaves
\* the session out of the registry; every other session's entry stays as it
\* was.
C19_CleanupRetiresSession ==
    [][(/\ ret'.op = "cleanup"
        /\ ret'.session_id \in DOMAIN sessions
        /\ ret'.flag \/ \A w \in Keys(sessions[ret'.session_id].worktrees) :
                           sessions[ret'.session_id].implementations[w]) =>
          /\ ret'.status = "cleaned up"
          /\ ret'.requests = OwedByCleanup(ret'.session_id)
          /\ ret'.session_id \notin DOMAIN sessions'
          /\ \A s \in DOMAIN sessions \ {ret'.session_id} :
                s \in DOMAIN sessions' /\ sessions'[s] = sessions[s]]_vars

\* A forced cleanup has retired one of two registered sessions although git
\* refused to remove one of its working copies, which is still on disk.
C19_Witness ==
    /\ ret.op = "cleanup"
    /\ ret.status = "cleaned up"
    /\ ret.flag
    /\ ret.session_id \notin DOMAIN sessions
    /\ DOMAIN sessions # {}
    /\ \E r \in ret.requests : r[1] = "worktree" /\ r[2] \in DOMAIN worktreeDirs

\* C20: a session id leaves the registry only in a cleanup_session call on
\* that session which passed its check (forced, or every variant Completed);
\* no mark, info, evaluate, finalize, auto-select or monitor step,
\* the monitor's end-of-session handling included, removes one.
C20_OnlyCleanupRemoves ==
    [][/\ \A s \in DOMAIN sessions :
             s \notin DOMAIN sessions' =>
                /\ ret'.op = "cleanup"
                /\ ret'.status = "cleaned up"
                /\ ret'.session_id = s
                /\ ret'.flag \/ \A w \in Keys(sessions[s].worktrees) :
                                   sessions[s].implementations[w]
       /\ ret'.op \in KeepsSession =>
             DOMAIN sessions \subseteq DOMAIN sessions']_vars

\* The monitor has ended a session whose variants are all Completed, has
\* dropped its own task entry, and the session is still registered.
C20_Witness ==
    /\ ret.op = "monitor"
    /\ ret.status = "presented"
    /\ ret.session_id \in DOMAIN sessions
    /\ ret.session_id \notin DOMAIN monitoring_tasks
    /\ sessions[ret.session_id].num_variants > 0

\* The answers of a call that names an unknown session or an unknown variant.
NotFound == {"session_not_found", "worktree_not_found"}

\* C21: a call of get_worktree_info, mark_implementation_complete,
\* evaluate_implementations, finalize_best, auto_select_best or
\* cleanup_session that answers "not found" for its session id or its
\* variant id has changed no completion flag, evaluation or variant map, and
\* no working copy or branch.
C21_NotFoundChangesNothing ==
    [][(/\ ret'.op \in {"info", "mark", "evaluate", "finalize", "auto_select",
                        "cleanup"}
        /\ ret'.status \in NotFound) =>
          /\ sessions' = sessions
          /\ worktreeDirs' = worktreeDirs
          /\ branches' = branches]_vars

\* C22: in every registered session the variant map and the completion map
\* have the same keys, as many as num_variants when that count is not
\* negative; and a step other than a create call leaves the variant map of a
\* session that stays registered as it was, so that no variant is added, and
\* a session's entries go only with the session, in a cleanup.
C22_VariantMapFixed ==
    /\ [](\A s \in DOMAIN sessions :
             /\ Keys(sessions[s].worktrees) = DOMAIN sessions[s].implementations
             /\ sessions[s].num_variants >= 0 =>
                   /\ Len(sessions[s].worktrees) = sessions[s].num_variants
                   /\ Cardinality(Keys(sessions[s].worktrees))
                         = sessions[s].num_variants)
    /\ [][ret'.op # "create" =>
             \A s \in DOMAIN sessions :
                IF s \in DOMAIN sessions'
                THEN /\ sessions'[s].worktrees = sessions[s].worktrees
                     /\ DOMAIN sessions'[s].implementations
                           = DOMAIN sessions[s].implementations
                ELSE ret'.op = "cleanup"]_vars

\* A finalize has destroyed a variant of a session of two, whose maps still
\* hold both.
C22_Witness ==
    /\ ret.op = "finalize"
    /\ ret.status = "finalized"
    /\ ret.requests # {}
    /\ sessions[ret.session_id].num_variants = 2
    /\ Keys(sessions[ret.session_id].worktrees) = {"variant-1", "variant-2"}
    /\ DOMAIN sessions[ret.session_id].implementations = {"variant-1", "variant-2"}

\* The variants of registered sessions that are Pending, as pairs of session
\* and variant id.
PendingVariants ==
    { <<s, w>> \in (DOMAIN sessions) \X WorktreeIds :
         /\ w \in Keys(sessions[s].worktrees)
         /\ ~sessions[s].implementations[w] }

\* C23: a step that removes the working copy or deletes the branch of a
\* variant that is Pending is a cleanup_session called with force = true.
C23_NoPrematureCleanup ==
    [][\A sw \in PendingVariants :
          LET path == PathOf(sessions[sw[1]].worktrees, sw[2])
              branch == CreatedBranch(sw[1], sw[2])
          IN \/ /\ path \in DOMAIN worktreeDirs => path \in DOMAIN worktreeDirs'
                /\ branch \in branches => branch \in branches'
             \/ ret'.op = "cleanup" /\ ret'.flag]_vars

\* C24: after a finalize_best that succeeded (called directly or by
\* auto_select_best) the variant map of the session holds the winner only.
C24_FinalizeDropsDestroyed ==
    (/\ ret.op \in {"finalize", "auto_select"}
     /\ ret.status = "finalized"
     /\ ret.session_id \in DOMAIN sessions) =>
       Keys(sessions[ret.session_id].worktrees) = {ret.best}

\* The working copies of session sid, the one of variant keep left out.
OtherPaths(sid, keep) ==
    { PathOf(sessions[sid].worktrees, w) : w \in Keys(sessions[sid].worktrees) \ {keep} }

\* C25: a finalize_best or cleanup_session that gets to its destroy loop and
\* finds that git does not remove one of the working copies still asks for
\* the removal of the working copy and of the branch of every variant it has
\* to destroy, and ends as it does when nothing fails.
C25_DestroyBestEffort ==
    [][(/\ ret'.op \in {"finalize", "auto_select", "cleanup"}
        /\ ret'.requests # {}
        /\ ret'.session_id \in DOMAIN sessions
        /\ OtherPaths(ret'.session_id, IF ret'.op = "cleanup" THEN "" ELSE ret'.best)
              \cap DOMAIN worktreeDirs' # {}) =>
          /\ ret'.status \in {"finalized", "raised", "cleaned up"}
          /\ ret'.requests
                = OwedRequests(ret'.session_id,
                               IF ret'.op = "cleanup" THEN "" ELSE ret'.best)
          /\ ret'.op = "cleanup" => ret'.session_id \notin DOMAIN sessions']_vars

\* A cleanup of a session of two variants has asked for all four removals;
\* git removed one working copy and left the other.
C25_Witness ==
    /\ ret.op = "cleanup"
    /\ ret.status = "cleaned up"
    /\ Cardinality(ret.requests) = 4
    /\ Cardinality({ r \in ret.requests :
                       r[1] = "worktree" /\ r[2] \in DOMAIN worktreeDirs }) = 1

\* C26: the variants that a finalize_best which succeeded lists as cleaned up
\* are variants whose working copy is gone.
C26_CleanedUpMeansRemoved ==
    (/\ ret.op \in {"finalize", "auto_select"}
     /\ ret.status = "finalized"
     /\ ret.session_id \in DOMAIN sessions) =>
       \A k \in 1 .. Len(ret.ids) :
          PathOf(sessions[ret.session_id].worktrees, ret.ids[k])
             \notin DOMAIN worktreeDirs

\* C27: a monitor task does its end-of-session handling in a tick that finds
\* every variant of its session Completed, and that tick is its last: the
\* task has ended, whether the handling raised or not, and a task that has
\* ended never polls again.  A monitor tick is always one of a running task.
C27_MonitorHandlesOnce ==
    [][/\ \A k \in DOMAIN monitors :
             monitors[k].state = "ended" =>
                k \in DOMAIN monitors' /\ monitors'[k] = monitors[k]
       /\ ret'.op = "monitor" =>
             \E k \in DOMAIN monitors :
                /\ monitors[k].state = "running"
                /\ monitors[k].session_id = ret'.session_id
                /\ \A j \in DOMAIN monitors \ {k} : monitors'[j] = monitors[j]
                /\ monitors'[k].state = IF ret'.status = "sleep" THEN "running"
                                        ELSE "ended"
       /\ (ret'.op = "monitor" /\ ret'.status \in {"presented", "error"}) =>
             /\ ret'.session_id \in DOMAIN sessions
             /\ \A w \in Keys(sessions'[ret'.session_id].worktrees) :
                   sessions'[ret'.session_id].implementations[w]]_vars

\* The monitor of a session of two Completed variants has done its handling
\* and has ended.
C27_Witness ==
    /\ ret.op = "monitor"
    /\ ret.status \in {"presented", "error"}
    /\ Len(sessions[ret.session_id].worktrees) = 2
    /\ \A k \in DOMAIN monitors : monitors[k].state = "ended"

\* Every variant of session s is marked complete or has the sentinel in its
\* log.
AllSignalled(s) ==
    \A w \in Keys(sessions[s].worktrees) :
       \/ sessions[s].implementations[w]
       \/ check_log_completion(PathOf(sessions[s].worktrees, w))

\* A monitor task of session s has left its loop.
MonitorDone(s) ==
    \E k \in DOMAIN monitors :
       monitors[k].session_id = s /\ monitors[k].state = "ended"

\* C28: a session of at least one variant that from some time on stays
\* registered with every variant marked complete or signalled in its log has
\* a monitor that eventually does its end-of-session handling and ends.
C28_MonitorEventuallyEnds ==
    \A s \in SessionIds :
       <>[](/\ prog = WF
            /\ Registered(s)
            /\ sessions[s].num_variants > 0
            /\ AllSignalled(s)) => <>MonitorDone(s)

\* C29: the tick of a monitor task whose session is no longer in the
\* registry ends the task without raising, and leaves every session, working
\* copy, branch and log as it was.
C29_MonitorEndsWhenSessionGone ==
    [][(ret'.op = "monitor" /\ ret'.session_id \notin DOMAIN sessions) =>
          /\ ret'.status = "session_gone"
          /\ ~ret'.flag
          /\ \E k \in DOMAIN monitors :
                /\ monitors[k] = [session_id |-> ret'.session_id, state |-> "running"]
                /\ monitors'[k].state = "ended"
          /\ sessions' = sessions
          /\ worktreeDirs' = worktreeDirs
          /\ branches' = branches
          /\ logs' = logs]_vars

\* The monitor of a session that a cleanup removed has taken its last tick;
\* a working copy that git did not remove is still on disk.
C29_Witness ==
    /\ ret.op = "monitor"
    /\ ret.status = "session_gone"
    /\ ret.session_id \notin DOMAIN sessions
    /\ \A k \in DOMAIN monitors : monitors[k].state = "ended"
    /\ DOMAIN worktreeDirs # {}

\* C30: the flag of a variant goes from Pending to Completed only in a
\* mark_implementation_complete call that names the variant and succeeds, or
\* in a monitor tick or get_worktree_info call on its session made while the
\* variant's own execution.log holds the sentinel.
C30_NoSpuriousCompletion ==
    [][\A s \in DOMAIN sessions \cap DOMAIN sessions' :
          \A w \in Keys(sessions[s].worktrees) \cap Keys(sessions'[s].worktrees) :
             (~sessions[s].implementations[w] /\ sessions'[s].implementations[w]) =>
                \/ /\ ret'.op = "mark"
                   /\ ret'.status = "marked complete"
                   /\ ret'.session_id = s
                   /\ ret'.worktree_id = w
                \/ /\ ret'.op \in {"info", "monitor"}
                   /\ prog = WF
                   /\ ret'.session_id = s
                   /\ PathOf(sessions[s].worktrees, w) \in logs]_vars

\* A log refresh has completed the first variant of a session, whose log
\* holds the sentinel, and has left the second, whose log does not, Pending.
C30_Witness ==
    /\ ret.op \in {"info", "monitor"}
    /\ ret.session_id \in DOMAIN sessions
    /\ Len(sessions[ret.session_id].worktrees) = 2
    /\ sessions[ret.session_id].implementations["variant-1"]
    /\ PathOf(sessions[ret.session_id].worktrees, "variant-1") \in logs
    /\ ~sessions[ret.session_id].implementations["variant-2"]
    /\ PathOf(sessions[ret.session_id].worktrees, "variant-2") \notin logs

\* C31: a create call that answers with a provisioning error has written no
\* instruction file and launched no worker (orchestrated fan-out).
C31_NoLaunchBeforeAllProvisioned ==
    (ret.op = "create" /\ ret.status = "error_worktree")
       => (ret.launched = <<>> /\ ret.instruction_files = <<>>)

\* C32: a subtask monitor invokes combine_orchestrated_results only at a poll
\* at which every working copy of its session holds .task_complete; the poll
\* that invokes it is the last one of that monitor, which neither polls nor
\* combines again.
C32_CombineOnceWhenAllComplete ==
    [][/\ (ret'.op = "monitor" /\ ret'.status = "combined") =>
             \E k \in DOMAIN monitors :
                /\ monitors[k].session_id = ret'.session_id
                /\ monitors[k].state = "running"
                /\ monitors'[k].state = "ended"
                /\ \A j \in 1 .. Len(monitors[k].worktrees) :
                      monitors[k].worktrees[j].path \in logs
                /\ \A q \in DOMAIN monitors \ {k} : monitors'[q] = monitors[q]
       /\ \A k \in DOMAIN monitors :
             monitors[k].state = "ended" => monitors'[k] = monitors[k]
      ]_vars

C32_Witness ==
    /\ ret.op = "monitor"
    /\ ret.status = "combined"
    /\ Len(ret.worktrees) >= 2
    /\ \E k \in DOMAIN monitors :
          monitors[k].state = "ended" /\ monitors[k].worktrees = ret.worktrees

\* C33: the poll that combines an orchestrated session merges the branch of
\* every subtask into the base branch, in ascending subtask index order.
C33_CombineMergesInIndexOrder ==
    (ret.op = "monitor" /\ ret.status = "combined")
       => ret.merged = [j \in 1 .. Len(ret.worktrees) |-> ret.worktrees[j].branch]

\* C34: for every variant whose working copy a create_voting_worktrees call
\* made, _get_branch_name(session_id, worktree_id) is the branch that call
\* created for it, whether or not the session is in the registry.
C34_BranchNameReconstructed ==
    prog = WF =>
       \A sid \in uuids, task \in Tasks, i \in 0 .. MaxVariants - 1 :
          wf_worktree_path(sid, task, i) \in DOMAIN worktreeDirs =>
             get_branch_name(sid, variant_id(i))
                = worktreeDirs[wf_worktree_path(sid, task, i)]

\* The handlers of session s that are inside their body.
InBody(s) ==
    { k \in DOMAIN monitors :
        monitors[k].state = "in_body" /\ monitors[k].session_id = s }

\* C35: on the one event loop, at most one finalize_best or cleanup_session
\* call of a session is inside its body (between its first statement and its
\* return, its merge and destroy steps included) at any time, and no tick of
\* the monitor of that session is run while one is.
C35_CriticalSectionPerSession ==
    /\ [](\A s \in uuids : Cardinality(InBody(s)) <= 1)
    /\ [][ret'.op = "monitor" => InBody(ret'.session_id) = {}]_vars

\* One call is in the middle of its destroy loop while another call on the
\* same session waits for the loop.
C35_Witness ==
    \E k \in DOMAIN monitors, q \in DOMAIN monitors :
       /\ monitors[k].state = "in_body"
       /\ ret.status = "destroying"
       /\ monitors[k].targets # <<>>
       /\ monitors[q].state = "ready"
       /\ monitors[q].op \in LoopOps
       /\ monitors[q].session_id = monitors[k].session_id

\* The working copies and branches the provisioning of session sid made.
ProvisionedBy(sid) ==
    IF sid \in DOMAIN sessions THEN OwedByCleanup(sid) ELSE {}

\* C36: a finalize_best or cleanup_session on a session requests the removal
\* only of working copies and branches that the provisioning of that session
\* made, none of them another registered session's; and a mark, evaluate,
\* finalize, cleanup or monitor step on a session leaves the record of every
\* other registered session (variant map, completion flags, evaluations) as
\* it was.
C36_CrossSessionIsolation ==
    [][ret'.op \in {"mark", "evaluate", "finalize", "cleanup", "monitor"} =>
          /\ ret'.requests \subseteq ProvisionedBy(ret'.session_id)
          /\ \A other \in DOMAIN sessions \ {ret'.session_id} :
                /\ ret'.requests \cap ProvisionedBy(other) = {}
                /\ other \in DOMAIN sessions'
                /\ sessions'[other] = sessions[other]
      ]_vars

C36_Witness ==
    /\ ret.op \in {"finalize", "cleanup"}
    /\ ret.requests # {}
    /\ \E other \in DOMAIN sessions \ {ret.session_id} :
          /\ Len(sessions[other].worktrees) > 0
          /\ PathsOf(sessions[other]) \subseteq DOMAIN worktreeDirs

\* C37: a create call that registers its session does so under an id that is
\* not yet a key of the registry.
C37_SessionIdsUnique ==
    [][(ret'.op = "create" /\ ret'.status = "created")
          => ret'.session_id \notin DOMAIN sessions]_vars

\* C38: a monitor task that has left its loop, by whatever path, is not the
\* value of an entry of monitoring_tasks.
C38_OnlyLiveMonitorsRegistered ==
    \A k \in DOMAIN monitors :
       monitors[k].state = "ended" =>
          \A s \in DOMAIN monitoring_tasks : monitoring_tasks[s] # k

=============================================================================
